---- MODULE Spec2Model ----
(***************************************************************************)
(* Model of the semantic-complexity engine: the epsilon-convergence        *)
(* tracker and the ADR eligibility gate (energy/convergence.py), the       *)
(* oscillation detector (core/convergence.py), boundary degradation        *)
(* (flux/degradation.py), the potential function (energy/potential.py)     *)
(* and the canonical deviation (measurement/deviation.py).                  *)
(*                                                                         *)
(* Real numbers are fixed-point integers.  Delta-Phi and epsilon are in    *)
(* thousandths, flux and load in tenths, deviations and weights in tenths. *)
(* Text is a sequence of words.                                            *)
(***************************************************************************)
EXTENDS Integers, Sequences, FiniteSets, TLC

VARIABLES
    epsilon,        \* the epsilon the caller passes on every check_convergence call
    samples,        \* the Delta-Phi samples fed so far, oldest first
    convergence,    \* the ConvergenceResult of the latest check_convergence call
    eligibility,    \* the ADREligibility of the latest check_adr_eligibility call
    history,        \* the IterationHistory: its scores, oldest first
    analysis,       \* the ConvergenceResult of the latest analyze_convergence call
    flux_before,    \* the FluxResult of the earlier snapshot
    flux_after,     \* the FluxResult of the later snapshot
    load_threshold, \* the average-load threshold (alpha) passed by the caller
    degradation,    \* the DegradationResult of the latest detection
    stable,         \* the latest answer of is_flux_stable
    simple,         \* the latest detect_degradation_simple call on the two
                    \* snapshots' fluxes: its edge count and its result
    phi_metrics,    \* calculate_phi's metrics argument: a list of MetricsInput
    phi_edges,      \* calculate_phi's edges argument: a list of EdgeInput
    ops_penalty,    \* calculate_phi's ops_penalty argument
    config,         \* calculate_phi's config argument: a PotentialConfig or None
    potential,      \* the PotentialResult of the latest calculate_phi call
    x,              \* the measured vector passed to calculate_deviation and classify_hodge
    architecture_role,  \* calculate_deviation's module type argument
    d_u,            \* the deviation returned by the latest calculate_deviation call
    vector,         \* find_best_module_type's Vector5D argument
    best,           \* the outcome of the latest find_best_module_type call
    hodge,          \* the HodgeBucket returned by the latest classify_hodge call
    db,             \* the SQLite database of the store: its five tables
    answer,         \* the latest call on the store and what it returned
    batch,          \* the snapshot, metrics and edges a writer is storing
    pc,             \* the number of store calls the writer has completed
    seen,           \* the latest query of a concurrent reader and what it returned
    created_entities,   \* the create_entity calls made so far and their Entity
    created_snapshots,  \* the Snapshot objects create_snapshot has returned
    source,         \* the source text handed to VectorAnalyzer.measure
    measurement,    \* the VectorMeasurement it returned
    grace_text,     \* the grace-period string of an exception record
    grace_period,   \* what _parse_timedelta made of it
    adr,            \* the ADRDocument handed to the validator and the expiry check
    today,          \* the reference date of the call
    validation,     \* what validate_adr returned
    expiry          \* what check_expiry and its helpers returned

energyVars == <<epsilon, samples, convergence, eligibility>>
oscVars == <<history, analysis>>
fluxVars == <<flux_before, flux_after, load_threshold, degradation, stable, simple>>

phiVars == <<phi_metrics, phi_edges, ops_penalty, config, potential>>
devVars == <<x, architecture_role, d_u>>
bestVars == <<vector, best>>
hodgeVars == <<hodge>>
storeVars == <<db, answer>>
batchVars == <<batch, pc, seen>>
identityVars == <<created_entities, created_snapshots>>
measureVars == <<source, measurement>>
gateVars == <<grace_text, grace_period, adr, today, validation, expiry>>

coreVars == <<energyVars, oscVars, fluxVars, phiVars, devVars>>
restVars == <<bestVars, hodgeVars, storeVars, batchVars, identityVars,
             measureVars, gateVars>>

vars == <<epsilon, samples, convergence, eligibility, history, analysis,
          flux_before, flux_after, load_threshold, degradation, stable, simple,
          phi_metrics, phi_edges, ops_penalty, config, potential,
          x, architecture_role, d_u, vector, best, hodge,
          db, answer, batch, pc, seen,
          created_entities, created_snapshots, source, measurement,
          grace_text, grace_period, adr, today, validation, expiry>>

abs(n) == IF n < 0 THEN -n ELSE n

Last(s) == s[Len(s)]

HasWord(text, w) == \E i \in 1..Len(text) : text[i] = w

----------------------------------------------------------------------------
(* energy/convergence.py                                                   *)

DEFAULT_EPSILON == 10
MIN_CONVERGENCE_ITERATIONS == 3

\* the longest run of samples fed to the tracker
MaxSamples == 4

\* Delta-Phi samples: 0.1, 0.005, 0.003, 0.002, -0.005 and 0.01 (= default epsilon)
DeltaPhis == {100, 5, 3, 2, -5, 10}

Epsilons == {DEFAULT_EPSILON, 4}

ConvergedMessage(delta_phi, eps, iterations) ==
    <<"Converged:", ToString(abs(delta_phi)), "<", ToString(eps),
      "for", ToString(iterations), "iterations">>

ConvergingMessage(delta_phi, eps, iterations) ==
    <<"Converging:", ToString(abs(delta_phi)), "<", ToString(eps),
      ToString(iterations), "/", ToString(MIN_CONVERGENCE_ITERATIONS)>>

NotConvergedMessage(delta_phi, eps) ==
    <<"Not", "converged:", ToString(abs(delta_phi)), ">=", ToString(eps)>>

\* faulty variant: an out-of-tolerance sample keeps the counter
check_convergence_no_reset(delta_phi, eps, previous_iterations) ==
    LET is_converging == abs(delta_phi) < eps
        iterations == IF is_converging THEN previous_iterations + 1
                      ELSE previous_iterations
        converged == iterations >= MIN_CONVERGENCE_ITERATIONS
    IN  [converged |-> converged, delta_phi |-> delta_phi, epsilon |-> eps,
         iterations |-> iterations,
         message |-> IF converged THEN ConvergedMessage(delta_phi, eps, iterations)
                     ELSE IF is_converging
                          THEN ConvergingMessage(delta_phi, eps, iterations)
                          ELSE NotConvergedMessage(delta_phi, eps)]

\* faulty variant: one consecutive sample too many is required
check_convergence_off_by_one(delta_phi, eps, previous_iterations) ==
    LET is_converging == abs(delta_phi) < eps
        iterations == IF is_converging THEN previous_iterations + 1 ELSE 0
        converged == iterations > MIN_CONVERGENCE_ITERATIONS
    IN  [converged |-> converged, delta_phi |-> delta_phi, epsilon |-> eps,
         iterations |-> iterations,
         message |-> IF converged THEN ConvergedMessage(delta_phi, eps, iterations)
                     ELSE IF is_converging
                          THEN ConvergingMessage(delta_phi, eps, iterations)
                          ELSE NotConvergedMessage(delta_phi, eps)]

check_convergence(delta_phi, eps, previous_iterations) ==
    LET is_converging == abs(delta_phi) < eps
        iterations == IF is_converging THEN previous_iterations + 1 ELSE 0
        converged == iterations >= MIN_CONVERGENCE_ITERATIONS
    IN  [converged |-> converged, delta_phi |-> delta_phi, epsilon |-> eps,
         iterations |-> iterations,
         message |-> IF converged THEN ConvergedMessage(delta_phi, eps, iterations)
                     ELSE IF is_converging
                          THEN ConvergingMessage(delta_phi, eps, iterations)
                          ELSE NotConvergedMessage(delta_phi, eps)]

\* faulty variant: the quality gate's verdict is not consulted
can_issue_adr_ignores_gate(conv, flux_stable, evidence_complete, gate_passed) ==
    IF ~conv.converged
    THEN <<FALSE, <<"Not", "converged:">> \o conv.message>>
    ELSE IF ~flux_stable
    THEN <<FALSE, <<"Boundary", "flux", "is", "unstable", "-", "security",
                    "boundaries", "may", "be", "weakening">>>>
    ELSE IF ~evidence_complete
    THEN <<FALSE, <<"Evidence", "is", "incomplete", "-", "cannot", "verify",
                    "essential", "complexity">>>>
    ELSE <<TRUE, <<"ADR", "can", "be", "issued:", "Essential", "Complexity",
                   "confirmed">>>>

\* faulty variant: incomplete evidence is reported with the flux reason
can_issue_adr_generic_reason(conv, flux_stable, evidence_complete, gate_passed) ==
    IF ~conv.converged
    THEN <<FALSE, <<"Not", "converged:">> \o conv.message>>
    ELSE IF ~flux_stable
    THEN <<FALSE, <<"Boundary", "flux", "is", "unstable", "-", "security",
                    "boundaries", "may", "be", "weakening">>>>
    ELSE IF ~evidence_complete
    THEN <<FALSE, <<"Boundary", "flux", "is", "unstable", "-", "security",
                    "boundaries", "may", "be", "weakening">>>>
    ELSE IF gate_passed
    THEN <<FALSE, <<"Gate", "passed", "-", "no", "ADR", "needed,", "code",
                    "meets", "standards">>>>
    ELSE <<TRUE, <<"ADR", "can", "be", "issued:", "Essential", "Complexity",
                   "confirmed">>>>

can_issue_adr(conv, flux_stable, evidence_complete, gate_passed) ==
    IF ~conv.converged
    THEN <<FALSE, <<"Not", "converged:">> \o conv.message>>
    ELSE IF ~flux_stable
    THEN <<FALSE, <<"Boundary", "flux", "is", "unstable", "-", "security",
                    "boundaries", "may", "be", "weakening">>>>
    ELSE IF ~evidence_complete
    THEN <<FALSE, <<"Evidence", "is", "incomplete", "-", "cannot", "verify",
                    "essential", "complexity">>>>
    ELSE IF gate_passed
    THEN <<FALSE, <<"Gate", "passed", "-", "no", "ADR", "needed,", "code",
                    "meets", "standards">>>>
    ELSE <<TRUE, <<"ADR", "can", "be", "issued:", "Essential", "Complexity",
                   "confirmed">>>>

check_adr_eligibility(conv, flux_stable, evidence_complete, gate_passed) ==
    LET r == can_issue_adr(conv, flux_stable, evidence_complete, gate_passed)
    IN  [eligible |-> r[1], reason |-> r[2], convergence |-> conv,
         flux_stable |-> flux_stable, evidence_complete |-> evidence_complete,
         gate_passed |-> gate_passed]

\* the number of samples below eps at the end of the history, counted
\* from the latest back to the first that is not below
RECURSIVE trailing_run(_, _)
trailing_run(deltas, eps) ==
    IF deltas = <<>> \/ ~(abs(Last(deltas)) < eps) THEN 0
    ELSE 1 + trailing_run(SubSeq(deltas, 1, Len(deltas) - 1), eps)

HistoryResult(delta_phi_history, eps, iterations) ==
    LET converged == iterations >= MIN_CONVERGENCE_ITERATIONS
    IN  [converged |-> converged, delta_phi |-> Last(delta_phi_history),
         epsilon |-> eps, iterations |-> iterations,
         message |-> IF converged
                     THEN <<"Converged:", "last", ToString(iterations),
                            "iterations", "below", ToString(eps)>>
                     ELSE <<"Not", "converged:", ToString(iterations), "/",
                            ToString(MIN_CONVERGENCE_ITERATIONS), "iterations",
                            "below", ToString(eps)>>]

\* a variant that counts every sample below eps, not the trailing run
check_convergence_history_counting_all(delta_phi_history, eps) ==
    IF delta_phi_history = <<>>
    THEN [converged |-> FALSE, delta_phi |-> 0, epsilon |-> eps, iterations |-> 0,
          message |-> <<"No", "history">>]
    ELSE HistoryResult(delta_phi_history, eps,
                       Len(SelectSeq(delta_phi_history, LAMBDA d : abs(d) < eps)))

check_convergence_history(delta_phi_history, eps) ==
    IF delta_phi_history = <<>>
    THEN [converged |-> FALSE, delta_phi |-> 0, epsilon |-> eps, iterations |-> 0,
          message |-> <<"No", "history">>]
    ELSE HistoryResult(delta_phi_history, eps, trailing_run(delta_phi_history, eps))

\* before the first sample: the caller holds no result and threads the counter 0
NoConvergence ==
    [converged |-> FALSE, delta_phi |-> 0, epsilon |-> 0, iterations |-> 0,
     message |-> <<>>]

\* before the first eligibility check
NoEligibility ==
    [eligible |-> FALSE, reason |-> <<>>, convergence |-> NoConvergence,
     flux_stable |-> FALSE, evidence_complete |-> FALSE, gate_passed |-> FALSE]

EnergyInit ==
    /\ epsilon \in Epsilons
    /\ samples = <<>>
    /\ convergence = NoConvergence
    /\ eligibility = NoEligibility

\* the caller feeds the next Delta-Phi sample, threading the previous counter
FeedSample ==
    /\ Len(samples) < MaxSamples
    /\ \E d \in DeltaPhis :
          /\ samples' = Append(samples, d)
          /\ convergence' = check_convergence(d, epsilon, convergence.iterations)
    /\ UNCHANGED <<epsilon, eligibility>>
    /\ UNCHANGED <<oscVars, fluxVars, phiVars, devVars, restVars>>

\* the caller asks whether an ADR can be issued for the latest convergence result
CheckEligibility ==
    /\ Len(samples) > 0
    /\ \E fs \in BOOLEAN, ec \in BOOLEAN, gp \in BOOLEAN :
          eligibility' = check_adr_eligibility(convergence, fs, ec, gp)
    /\ UNCHANGED <<epsilon, samples, convergence>>
    /\ UNCHANGED <<oscVars, fluxVars, phiVars, devVars, restVars>>

----------------------------------------------------------------------------
(* core/convergence.py                                                     *)

\* IterationHistory.max_history as the caller constructs it
MaxHistory == 5

\* the scores added to the history
HistoryScores == {9, 10, 11}

\* the arguments of analyze_convergence
Scores == {7, 8, 9, 10, 12}
Thresholds == {10, 8}
AnalysisEpsilons == {2, 0}

\* a float as a fraction <<numerator, denominator>>; float('inf') is <<1, 0>>
Inf == <<1, 0>>
Less(r, k) == r[1] < k * r[2]

\* round(a / b, 0) for b > 0: to the nearest integer, a tie to the even one
RoundDiv(a, b) ==
    LET q == (2 * a + b) \div (2 * b)
    IN  IF (2 * a + b) % (2 * b) = 0 /\ q % 2 = 1 THEN q - 1 ELSE q

\* round(r, 3), in thousandths
Round3(r) == IF r[2] = 0 THEN r ELSE <<RoundDiv(1000 * r[1], r[2]), 1000>>

Diffs(scores) == [i \in 1..(Len(scores) - 1) |-> scores[i + 1] - scores[i]]

\* faulty variant: no minimum window length
is_oscillating_no_minimum(scores) ==
    LET diffs == Diffs(scores)
        sign_changes == Cardinality({i \in 1..(Len(diffs) - 1) :
                                        diffs[i] * diffs[i + 1] < 0})
    IN  10 * sign_changes >= 6 * Len(diffs)

is_oscillating(scores) ==
    IF Len(scores) < 4 THEN FALSE
    ELSE LET diffs == Diffs(scores)
             sign_changes == Cardinality({i \in 1..(Len(diffs) - 1) :
                                             diffs[i] * diffs[i + 1] < 0})
         IN  10 * sign_changes >= 6 * Len(diffs)

convergence_score(current, threshold, eps) ==
    LET target == threshold - eps
    IN  IF eps = 0 THEN (IF current > target THEN Inf ELSE <<0, 1>>)
        ELSE <<current - target, eps>>

\* the optional history argument: an IterationHistory (given) or None
None == [given |-> FALSE, scores |-> <<>>]
Some(scores) == [given |-> TRUE, scores |-> scores]

\* faulty variant: the safe zone is tested before the oscillation
analyze_convergence_score_first(score, threshold, eps, hist) ==
    LET target == threshold - eps
        conv_score == convergence_score(score, threshold, eps)
        status == IF Less(conv_score, 0) THEN "SAFE"
                  ELSE IF hist.given /\ is_oscillating(hist.scores) THEN "OSCILLATING"
                  ELSE IF Less(conv_score, 1) THEN "REVIEW"
                  ELSE "VIOLATION"
    IN  [score |-> score, threshold |-> threshold, epsilon |-> eps,
         convergence_score |-> Round3(conv_score), status |-> status,
         distance_to_target |-> score - target,
         distance_to_threshold |-> threshold - score,
         lipschitz_estimate |-> 0]

analyze_convergence(score, threshold, eps, hist) ==
    LET target == threshold - eps
        conv_score == convergence_score(score, threshold, eps)
        status == IF hist.given /\ is_oscillating(hist.scores) THEN "OSCILLATING"
                  ELSE IF Less(conv_score, 0) THEN "SAFE"
                  ELSE IF Less(conv_score, 1) THEN "REVIEW"
                  ELSE "VIOLATION"
    IN  [score |-> score, threshold |-> threshold, epsilon |-> eps,
         convergence_score |-> Round3(conv_score), status |-> status,
         distance_to_target |-> score - target,
         distance_to_threshold |-> threshold - score,
         lipschitz_estimate |-> 0]

is_converged(result) == result.status = "SAFE"

\* before the first analyze_convergence call
NoAnalysis ==
    [score |-> 0, threshold |-> 0, epsilon |-> 0, convergence_score |-> <<0, 1000>>,
     status |-> "NONE", distance_to_target |-> 0, distance_to_threshold |-> 0,
     lipschitz_estimate |-> 0]

OscInit ==
    /\ history = <<>>
    /\ analysis = NoAnalysis

\* a variant that makes room by dropping the newest of the held scores
add_dropping_newest(scores, score) ==
    IF Len(scores) + 1 > MaxHistory
    THEN Append(SubSeq(scores, 1, Len(scores) - 1), score)
    ELSE Append(scores, score)

\* IterationHistory.add
add(scores, score) ==
    LET appended == Append(scores, score)
    IN  IF Len(appended) > MaxHistory THEN Tail(appended) ELSE appended

Add ==
    /\ \E score \in HistoryScores : history' = add(history, score)
    /\ UNCHANGED analysis
    /\ UNCHANGED <<energyVars, fluxVars, phiVars, devVars, restVars>>

\* analyze_convergence with the history passed (with_history) or left None;
\* prev_vector, curr_vector and prev_score are left None
Analyze(score, threshold, eps, with_history) ==
    /\ analysis' = analyze_convergence(score, threshold, eps,
                                       IF with_history THEN Some(history) ELSE None)
    /\ UNCHANGED history
    /\ UNCHANGED <<energyVars, fluxVars, phiVars, devVars, restVars>>

AnalyzeAny ==
    \E score \in Scores, threshold \in Thresholds, eps \in AnalysisEpsilons,
       with_history \in BOOLEAN : Analyze(score, threshold, eps, with_history)

----------------------------------------------------------------------------
(* flux/degradation.py (flux and load in tenths)                           *)

BOUNDARY_LOAD_THRESHOLD == 20

\* FluxResult values of a snapshot: flux 4.0, 5.0, 7.0, 8.0; average load per
\* boundary edge 1.5, 2.0, 2.3, 4.5
Fluxes == {40, 50, 70, 80}
EdgeCounts == {1, 3}
AvgWeights == {15, 20, 23, 45}
LoadThresholds == {BOUNDARY_LOAD_THRESHOLD, 10, 0}

FluxResults ==
    [flux : Fluxes, boundary_edge_count : EdgeCounts, avg_weight_per_edge : AvgWeights]

\* faulty variant: the size of the increase is tested first
_calculate_severity_size_first(delta_flux, avg_load_exceeded, alpha, after) ==
    LET flux_increased == delta_flux > 0
        large_increase == delta_flux > alpha
        very_high_load == after.avg_weight_per_edge > alpha * 2
    IN  IF large_increase \/ very_high_load THEN "MODERATE"
        ELSE IF flux_increased /\ avg_load_exceeded THEN "SEVERE"
        ELSE IF flux_increased \/ avg_load_exceeded THEN "MILD"
        ELSE "NONE"

_calculate_severity(delta_flux, avg_load_exceeded, alpha, after) ==
    LET flux_increased == delta_flux > 0
        large_increase == delta_flux > alpha
        very_high_load == after.avg_weight_per_edge > alpha * 2
    IN  IF flux_increased /\ avg_load_exceeded THEN "SEVERE"
        ELSE IF large_increase \/ very_high_load THEN "MODERATE"
        ELSE IF flux_increased \/ avg_load_exceeded THEN "MILD"
        ELSE "NONE"

_build_message(degraded, delta_flux, avg_load_exceeded, alpha, after) ==
    IF ~degraded THEN <<"Boundary", "stable">>
    ELSE <<"Bread", "weakening:">>
         \o (IF delta_flux > 0 THEN <<"dFlux", ToString(delta_flux), ">", "0">>
             ELSE <<>>)
         \o (IF avg_load_exceeded
             THEN <<"avg_load", ToString(after.avg_weight_per_edge), ">",
                    ToString(alpha)>>
             ELSE <<>>)

\* faulty variant: degraded only when both conditions hold
detect_boundary_degradation_needs_both(before, after, alpha) ==
    LET delta_flux == after.flux - before.flux
        avg_load_exceeded == after.avg_weight_per_edge > alpha
        flux_increased == delta_flux > 0
        degraded == flux_increased /\ avg_load_exceeded
    IN  [degraded |-> degraded, delta_flux |-> delta_flux,
         avg_load_exceeded |-> avg_load_exceeded,
         severity |-> _calculate_severity(delta_flux, avg_load_exceeded, alpha, after),
         message |-> _build_message(degraded, delta_flux, avg_load_exceeded,
                                    alpha, after)]

detect_boundary_degradation(before, after, alpha) ==
    LET delta_flux == after.flux - before.flux
        avg_load_exceeded == after.avg_weight_per_edge > alpha
        flux_increased == delta_flux > 0
        degraded == flux_increased \/ avg_load_exceeded
    IN  [degraded |-> degraded, delta_flux |-> delta_flux,
         avg_load_exceeded |-> avg_load_exceeded,
         severity |-> _calculate_severity(delta_flux, avg_load_exceeded, alpha, after),
         message |-> _build_message(degraded, delta_flux, avg_load_exceeded,
                                    alpha, after)]

\* avg_load = flux_after / edge_count if edge_count > 0 else 0.0, compared
\* with a limit: avg_load > limit
avg_load_above(flux, edge_count, limit) ==
    IF edge_count > 0 THEN flux > limit * edge_count ELSE 0 > limit

\* the fluxes are floats and the edge count an int
detect_degradation_simple(before, after, edge_count, alpha) ==
    LET delta_flux == after - before
        avg_load_exceeded == avg_load_above(after, edge_count, alpha)
        flux_increased == delta_flux > 0
        degraded == flux_increased \/ avg_load_exceeded
        severity == IF flux_increased /\ avg_load_exceeded THEN "SEVERE"
                    ELSE IF delta_flux > alpha
                            \/ avg_load_above(after, edge_count, alpha * 2)
                    THEN "MODERATE"
                    ELSE IF flux_increased \/ avg_load_exceeded THEN "MILD"
                    ELSE "NONE"
    IN  [degraded |-> degraded, delta_flux |-> delta_flux,
         avg_load_exceeded |-> avg_load_exceeded, severity |-> severity,
         message |-> IF degraded
                     THEN <<"Bread", "weakening:">>
                          \o (IF flux_increased
                              THEN <<"dFlux", ToString(delta_flux)>> ELSE <<>>)
                          \o (IF avg_load_exceeded THEN <<"avg_load">> ELSE <<>>)
                     ELSE <<"Boundary", "stable">>]

\* view/boundary_view.py: the status and the degraded entry of the summary
\* of a view with this degradation
get_boundary_status_summary(result) ==
    [status |-> IF result.degraded
                THEN CASE result.severity = "SEVERE" -> "severe"
                       [] result.severity = "MODERATE" -> "moderate"
                       [] result.severity = "MILD" -> "mild"
                       [] OTHER -> "none"
                ELSE "stable",
     degraded |-> result.degraded]

is_flux_stable(before, after, alpha) ==
    ~detect_boundary_degradation(before, after, alpha).degraded

\* the flux of a graph without boundary edges (calculate_boundary_flux of no edges)
EmptyFlux == [flux |-> 0, boundary_edge_count |-> 0, avg_weight_per_edge |-> 0]

\* before the first detection
NoDegradation ==
    [degraded |-> FALSE, delta_flux |-> 0, avg_load_exceeded |-> FALSE,
     severity |-> "UNSET", message |-> <<>>]

\* before the call of detect_degradation_simple
NoSimple == [called |-> FALSE, edge_count |-> 0, result |-> NoDegradation]

FluxInit ==
    /\ flux_before = EmptyFlux
    /\ flux_after = EmptyFlux
    /\ load_threshold = BOUNDARY_LOAD_THRESHOLD
    /\ degradation = NoDegradation
    /\ stable = TRUE
    /\ simple = NoSimple

\* a new snapshot is analysed: its flux is compared with the previous snapshot's
NextSnapshot ==
    \E after \in FluxResults, alpha \in LoadThresholds :
        /\ flux_before' = flux_after
        /\ flux_after' = after
        /\ load_threshold' = alpha
        /\ degradation' = detect_boundary_degradation(flux_after, after, alpha)
        /\ stable' = is_flux_stable(flux_after, after, alpha)
        /\ simple' = NoSimple
        /\ UNCHANGED <<energyVars, oscVars, phiVars, devVars, restVars>>

\* the caller passes the two snapshots' fluxes, an edge count and the
\* threshold to detect_degradation_simple
DetectSimple ==
    \E edge_count \in {0} \cup EdgeCounts :
        /\ simple' = [called |-> TRUE, edge_count |-> edge_count,
                      result |-> detect_degradation_simple(
                                     flux_before.flux, flux_after.flux,
                                     edge_count, load_threshold)]
        /\ UNCHANGED <<flux_before, flux_after, load_threshold, degradation, stable>>
        /\ UNCHANGED <<energyVars, oscVars, phiVars, devVars, restVars>>

----------------------------------------------------------------------------
(* energy/potential.py (deviations, weights, coupling, penalty and the     *)
(* lambdas in tenths; phi and its components in hundredths)                *)

LAMBDA_1 == 10
LAMBDA_2 == 5
LAMBDA_3 == 3

\* the longest metrics and edges lists
MaxMetrics == 2
MaxEdges == 2

\* MetricsInput.d: 0.0, 0.7, 1.5
Deviations == {0, 7, 15}

\* EdgeInput: weight_total 2.0 or 3.5, coupling 0.5 or 0.6
EdgeInputs == [weight_total : {20, 35}, is_boundary : BOOLEAN, coupling : {5, 6}]

OpsPenalties == {0, 10}

PotentialConfig == [given |-> TRUE, lambda_1 |-> LAMBDA_1, lambda_2 |-> LAMBDA_2,
                    lambda_3 |-> LAMBDA_3]
NoConfig == [given |-> FALSE, lambda_1 |-> 0, lambda_2 |-> 0, lambda_3 |-> 0]
CustomConfig == [given |-> TRUE, lambda_1 |-> 20, lambda_2 |-> 10, lambda_3 |-> 0]

SeqsUpTo(S, n) == UNION {[1..k -> S] : k \in 0..n}

RECURSIVE sum(_)
sum(s) == IF s = <<>> THEN 0 ELSE Head(s) + sum(Tail(s))

\* faulty variant: coupling of exactly 0.5 counts as bad coupling
RECURSIVE bad_coupling_weights_inclusive(_)
bad_coupling_weights_inclusive(edges) ==
    IF edges = <<>> THEN <<>>
    ELSE LET e == Head(edges)
         IN  (IF e.is_boundary \/ e.coupling >= 5 THEN <<e.weight_total>> ELSE <<>>)
             \o bad_coupling_weights_inclusive(Tail(edges))

\* [e.weight_total for e in edges if e.is_boundary or e.coupling > 0.5]
RECURSIVE bad_coupling_weights(_)
bad_coupling_weights(edges) ==
    IF edges = <<>> THEN <<>>
    ELSE LET e == Head(edges)
         IN  (IF e.is_boundary \/ e.coupling > 5 THEN <<e.weight_total>> ELSE <<>>)
             \o bad_coupling_weights(Tail(edges))

calculate_phi(metrics, edges, penalty, conf) ==
    LET cfg == IF conf.given THEN conf ELSE PotentialConfig
        deviation_sum == sum([i \in 1..Len(metrics) |-> metrics[i].d])
        edge_weight_sum == sum(bad_coupling_weights(edges))
        phi == cfg.lambda_1 * deviation_sum + cfg.lambda_2 * edge_weight_sum
               + cfg.lambda_3 * penalty
    IN  [phi |-> phi, deviation_sum |-> deviation_sum,
         edge_weight_sum |-> edge_weight_sum, ops_penalty |-> penalty,
         components |-> [deviation |-> cfg.lambda_1 * deviation_sum,
                         edge |-> cfg.lambda_2 * edge_weight_sum,
                         ops |-> cfg.lambda_3 * penalty]]

\* before the call
NoPotential ==
    [phi |-> -1, deviation_sum |-> 0, edge_weight_sum |-> 0, ops_penalty |-> 0,
     components |-> [deviation |-> 0, edge |-> 0, ops |-> 0]]

MetricsInputs == [entity_id : {"u"}, d : Deviations]

\* the caller's arguments
PhiInit ==
    /\ phi_metrics \in SeqsUpTo(MetricsInputs, MaxMetrics)
    /\ phi_edges \in SeqsUpTo(EdgeInputs, MaxEdges)
    /\ ops_penalty \in OpsPenalties
    /\ config \in {NoConfig, PotentialConfig, CustomConfig}
    /\ potential = NoPotential

PhiIdle ==
    /\ phi_metrics = <<>>
    /\ phi_edges = <<>>
    /\ ops_penalty = 0
    /\ config = NoConfig
    /\ potential = NoPotential

CalculatePhi ==
    /\ potential = NoPotential
    /\ potential' = calculate_phi(phi_metrics, phi_edges, ops_penalty, config)
    /\ UNCHANGED <<phi_metrics, phi_edges, ops_penalty, config>>
    /\ UNCHANGED <<energyVars, oscVars, fluxVars, devVars, restVars>>

----------------------------------------------------------------------------
(* measurement/deviation.py (vector components in halves; the deviation in *)
(* units of 1/DevUnit, rounded down)                                       *)

\* the largest measured counts; Coupling grows by 0.5 per import
MaxControl == 8
MaxNesting == 4
MaxState == 3
MaxAsync == 3
MaxCouplingHalves == 10

Whole(n) == {2 * k : k \in 0..n}

ComplexityVectors ==
    [C : Whole(MaxControl), N : Whole(MaxNesting), S : Whole(MaxState),
     A : Whole(MaxAsync), L : 0..MaxCouplingHalves]

ComplexityVector(c, n, s, a, l) ==
    [C |-> 2 * c, N |-> 2 * n, S |-> 2 * s, A |-> 2 * a, L |-> 2 * l]

ModuleTypes == {"api/external", "lib/domain", "app", "infra", "deploy"}

CANONICAL_5D_PROFILES ==
    [t \in ModuleTypes |->
        CASE t = "api/external" -> ComplexityVector(3, 2, 1, 1, 2)
          [] t = "lib/domain" -> ComplexityVector(5, 3, 2, 0, 3)
          [] t = "app" -> ComplexityVector(8, 4, 3, 2, 5)
          [] t = "infra" -> ComplexityVector(4, 2, 2, 3, 4)
          [] t = "deploy" -> ComplexityVector(2, 1, 1, 1, 2)]

\* faulty variant: an unknown category falls back to the first declared profile
get_canonical_5d_profile_first_declared(role) ==
    IF role \in DOMAIN CANONICAL_5D_PROFILES THEN CANONICAL_5D_PROFILES[role]
    ELSE CANONICAL_5D_PROFILES["api/external"]

get_canonical_5d_profile(role) ==
    IF role \in DOMAIN CANONICAL_5D_PROFILES THEN CANONICAL_5D_PROFILES[role]
    ELSE CANONICAL_5D_PROFILES["app"]

to_array(v) == <<v.C, v.N, v.S, v.A, v.L>>

DevUnit == 2 * 120

RECURSIVE isqrt_from(_, _)
isqrt_from(n, r) ==
    LET r2 == (r + n \div r) \div 2
    IN  IF r2 >= r THEN r ELSE isqrt_from(n, r2)

\* the square root, rounded down
isqrt(n) == IF n = 0 THEN 0 ELSE isqrt_from(n, n)

\* np.linalg.norm
norm(arr) == isqrt(sum([i \in 1..Len(arr) |-> arr[i] * arr[i]]))

\* faulty variant: a component with reference 0 never contributes
calculate_deviation_zero_reference_skipped(v, role) ==
    LET mu == get_canonical_5d_profile(role)
        x_arr == to_array(v)
        mu_arr == to_array(mu)
        normalized == [i \in 1..Len(x_arr) |->
            IF mu_arr[i] = 0 THEN 0
            ELSE (DevUnit * x_arr[i]) \div mu_arr[i] - DevUnit]
    IN  norm(normalized)

calculate_deviation(v, role) ==
    LET mu == get_canonical_5d_profile(role)
        x_arr == to_array(v)
        mu_arr == to_array(mu)
        normalized == [i \in 1..Len(x_arr) |->
            IF mu_arr[i] = 0
            THEN (IF x_arr[i] = 0 THEN 0 ELSE (DevUnit * x_arr[i]) \div 2)
            ELSE (DevUnit * x_arr[i]) \div mu_arr[i] - DevUnit]
    IN  norm(normalized)

\* before the call
NoDeviation == 0 - 1

\* the caller's arguments
DevInit ==
    /\ x \in ComplexityVectors
    /\ architecture_role \in ModuleTypes \cup {"unknown"}
    /\ d_u = NoDeviation

DevIdle ==
    /\ x = ComplexityVector(0, 0, 0, 0, 0)
    /\ architecture_role = "app"
    /\ d_u = NoDeviation

CalculateDeviation ==
    /\ d_u = NoDeviation
    /\ d_u' = calculate_deviation(x, architecture_role)
    /\ UNCHANGED <<x, architecture_role>>
    /\ UNCHANGED <<energyVars, oscVars, fluxVars, phiVars, restVars>>

----------------------------------------------------------------------------
(* core/tensor.py and core/canonical.py (Vector5D components in halves,   *)
(* matrix entries in tenths; a distance d is carried as 40 * d^2, which   *)
(* orders distances as d does, and is rounded when it is returned)        *)

\* the members of the enum, in declaration order
ModuleType == <<"api", "lib", "app", "web", "data", "infra", "deploy", "unknown">>

Vector5D(control, nesting, state, async_, coupling) ==
    <<control, nesting, state, async_, coupling>>

\* the vectors of the tests and their neighbours
Vector5Ds ==
    {Vector5D(c, n, s, a, l) :
        c \in {4, 10}, n \in {2, 6, 10}, s \in {1, 8, 10}, a \in {1, 8, 10},
        l \in {1, 2, 4, 10}}

CanonicalProfile(control, nesting, state, async_, coupling) ==
    [control |-> control, nesting |-> nesting, state |-> state,
     async_ |-> async_, coupling |-> coupling]

\* the center of the canonical region: (min + max) / 2 on every dimension
centroid(profile) ==
    Vector5D(profile.control[1] + profile.control[2],
             profile.nesting[1] + profile.nesting[2],
             profile.state[1] + profile.state[2],
             profile.async_[1] + profile.async_[2],
             profile.coupling[1] + profile.coupling[2])

DEFAULT_MATRIX ==
    <<<<10, 3, 2, 2, 3>>,
      <<3, 10, 4, 8, 2>>,
      <<2, 4, 10, 5, 9>>,
      <<2, 8, 5, 10, 4>>,
      <<3, 2, 9, 4, 10>>>>

MODULE_MATRICES ==
    [t \in {"api", "lib", "app", "web", "data", "infra", "deploy"} |->
        CASE t = "api" ->
            <<<<10, 2, 3, 2, 4>>,
              <<2, 10, 3, 6, 2>>,
              <<3, 3, 10, 4, 15>>,
              <<2, 6, 4, 10, 5>>,
              <<4, 2, 15, 5, 10>>>>
          [] t = "lib" ->
            <<<<10, 12, 2, 2, 2>>,
              <<12, 10, 3, 5, 2>>,
              <<2, 3, 10, 3, 6>>,
              <<2, 5, 3, 10, 3>>,
              <<2, 2, 6, 3, 10>>>>
          [] t = "app" ->
            <<<<10, 3, 3, 3, 3>>,
              <<3, 10, 5, 9, 2>>,
              <<3, 5, 10, 13, 7>>,
              <<3, 9, 13, 10, 4>>,
              <<3, 2, 7, 4, 10>>>>
          [] t = "web" ->
            <<<<10, 5, 2, 4, 2>>,
              <<5, 15, 3, 6, 2>>,
              <<2, 3, 10, 3, 5>>,
              <<4, 6, 3, 10, 3>>,
              <<2, 2, 5, 3, 10>>>>
          [] t = "data" ->
            <<<<10, 2, 3, 1, 4>>,
              <<2, 10, 2, 1, 2>>,
              <<3, 2, 15, 2, 8>>,
              <<1, 1, 2, 10, 2>>,
              <<4, 2, 8, 2, 10>>>>
          [] t = "infra" ->
            <<<<10, 2, 2, 3, 4>>,
              <<2, 10, 2, 3, 2>>,
              <<2, 2, 10, 4, 6>>,
              <<3, 3, 4, 15, 8>>,
              <<4, 2, 6, 8, 15>>>>
          [] t = "deploy" ->
            <<<<10, 1, 1, 1, 2>>,
              <<1, 10, 1, 1, 1>>,
              <<1, 1, 10, 1, 3>>,
              <<1, 1, 1, 10, 2>>,
              <<2, 1, 3, 2, 10>>>>
    ]

CANONICAL_PROFILES ==
    [t \in {"api", "lib", "app", "web", "deploy", "unknown"} |->
        CASE t = "api" ->
            CanonicalProfile(<<0, 5>>, <<0, 3>>, <<0, 2>>, <<0, 3>>, <<0, 3>>)
          [] t = "lib" ->
            CanonicalProfile(<<0, 10>>, <<0, 5>>, <<0, 2>>, <<0, 2>>, <<0, 2>>)
          [] t = "app" ->
            CanonicalProfile(<<0, 10>>, <<0, 5>>, <<0, 8>>, <<0, 8>>, <<0, 5>>)
          [] t = "web" ->
            CanonicalProfile(<<0, 8>>, <<0, 10>>, <<0, 5>>, <<0, 5>>, <<0, 3>>)
          [] t = "deploy" ->
            CanonicalProfile(<<0, 3>>, <<0, 2>>, <<0, 2>>, <<0, 2>>, <<0, 3>>)
          [] t = "unknown" ->
            CanonicalProfile(<<0, 15>>, <<0, 10>>, <<0, 10>>, <<0, 10>>, <<0, 10>>)
    ]

InteractionMatrix(module_type) ==
    IF module_type \in DOMAIN MODULE_MATRICES THEN MODULE_MATRICES[module_type]
    ELSE DEFAULT_MATRIX

\* v^T M v
quadratic_form(matrix, v) ==
    sum([k \in 1..25 |->
        LET i == (k - 1) \div 5 + 1
            j == ((k - 1) % 5) + 1
        IN  v[i] * matrix[i][j] * v[j]])

\* sqrt(|(v - target)^T M (v - target)|), carried as the radicand
mahalanobis_distance(v, target, interaction_matrix) ==
    LET diff == [i \in 1..5 |-> v[i] - target[i]]
    IN  abs(quadratic_form(interaction_matrix, diff))

\* float('inf')
InfDistance == 0 - 1

\* round(sqrt(radicand / 40), 3), in thousandths
round_distance(radicand) ==
    IF radicand = InfDistance THEN InfDistance
    ELSE (isqrt(radicand * 100000) + 1) \div 2

Returned(best_type, best_dist) ==
    [raised |-> "", best_type |-> best_type, distance |-> round_distance(best_dist)]

Raised(exception, key) ==
    [raised |-> exception, best_type |-> key, distance |-> InfDistance]

\* the loop over the enum, from its i-th member on
RECURSIVE find_best_from(_, _, _, _)
find_best_from(v, i, best_type, best_dist) ==
    IF i > Len(ModuleType) THEN Returned(best_type, best_dist)
    ELSE LET module_type == ModuleType[i]
         IN  IF module_type = "unknown"
             THEN find_best_from(v, i + 1, best_type, best_dist)
             ELSE IF module_type \notin DOMAIN CANONICAL_PROFILES
             THEN Raised("KeyError", module_type)
             ELSE LET dist == mahalanobis_distance(
                                  v, centroid(CANONICAL_PROFILES[module_type]),
                                  InteractionMatrix(module_type))
                  IN  IF best_dist = InfDistance \/ dist < best_dist
                      THEN find_best_from(v, i + 1, module_type, dist)
                      ELSE find_best_from(v, i + 1, best_type, best_dist)

find_best_module_type(v) == find_best_from(v, 1, "unknown", InfDistance)

\* before the call
NoBest == [raised |-> "", best_type |-> "", distance |-> InfDistance]

BestInit ==
    /\ vector \in Vector5Ds
    /\ best = NoBest

BestIdle ==
    /\ vector = Vector5D(0, 0, 0, 0, 0)
    /\ best = NoBest

FindBestModuleType ==
    /\ best = NoBest
    /\ best' = find_best_module_type(vector)
    /\ UNCHANGED vector
    /\ UNCHANGED <<coreVars, hodgeVars, storeVars, batchVars, identityVars, measureVars,
                   gateVars>>

----------------------------------------------------------------------------
(* measurement/hodge.py (scores in halves, as the vector components)       *)

\* the members of the enum, in declaration order
HodgeBucket == <<"algorithmic", "balanced", "architectural">>

get_hodge_scores(v) ==
    [algorithmic |-> v.C + v.N, balanced |-> v.A, architectural |-> v.S + v.L]

max(a, b, c) ==
    IF a >= b /\ a >= c THEN a ELSE IF b >= c THEN b ELSE c

\* faulty variant: the comparisons run from the last bucket to the first
classify_hodge_last_first(v) ==
    LET scores == get_hodge_scores(v)
        max_val == max(scores.algorithmic, scores.balanced, scores.architectural)
    IN  IF max_val = scores.architectural THEN "architectural"
        ELSE IF max_val = scores.balanced THEN "balanced"
        ELSE "algorithmic"

classify_hodge(v) ==
    LET scores == get_hodge_scores(v)
        algorithmic == scores.algorithmic
        balanced == scores.balanced
        architectural == scores.architectural
        max_val == max(algorithmic, balanced, architectural)
    IN  IF max_val = algorithmic THEN "algorithmic"
        ELSE IF max_val = balanced THEN "balanced"
        ELSE "architectural"

\* before the call
NoBucket == ""

HodgeInit ==
    /\ x \in ComplexityVectors
    /\ architecture_role = "app"
    /\ d_u = NoDeviation
    /\ hodge = NoBucket

HodgeIdle == hodge = NoBucket

ClassifyHodge ==
    /\ hodge = NoBucket
    /\ hodge' = classify_hodge(x)
    /\ UNCHANGED <<coreVars, bestVars, storeVars, batchVars, identityVars, measureVars,
                   gateVars>>

----------------------------------------------------------------------------
(* graph/snapshot.py, graph/entity.py, graph/edge.py, graph/metrics.py and *)
(* graph/store.py.  The database is a record of its five tables, each a    *)
(* set of rows.  Vector components and raw_sum are in halves, deviations,  *)
(* weights and confidence in tenths.  Text that is sliced or rewritten is  *)
(* a sequence of characters.                                               *)

SnapshotIds == {"snap-1", "snap-2"}
EntityIds == {"ent-1", "ent-2"}

Timestamps == {[day |-> 1, microsecond |-> 0]}

Snapshot(snapshot_id, commit, timestamp, repo, service, env) ==
    [snapshot_id |-> snapshot_id, commit |-> commit, timestamp |-> timestamp,
     repo |-> repo, service |-> service, env |-> env]

\* Snapshot.release_id: commit[:8]
release_id(snapshot) ==
    SubSeq(snapshot.commit, 1,
           IF Len(snapshot.commit) < 8 THEN Len(snapshot.commit) ELSE 8)

isoformat(timestamp) == <<timestamp.day, timestamp.microsecond>>

fromisoformat(text) == [day |-> text[1], microsecond |-> text[2]]

Entity(entity_id, type, path, symbol, language) ==
    [entity_id |-> entity_id, type |-> type, path |-> path, symbol |-> symbol,
     language |-> language]

WeightComponents(coupling, boundary, cognitive, failure_propagation) ==
    [coupling |-> coupling, boundary |-> boundary, cognitive |-> cognitive,
     failure_propagation |-> failure_propagation]

\* WeightComponents.total
total(w) == w.coupling + w.boundary + w.cognitive + w.failure_propagation

Edge(src_entity, dst_entity, snapshot_id, edge_type, weight_components) ==
    [src_entity |-> src_entity, dst_entity |-> dst_entity,
     snapshot_id |-> snapshot_id, edge_type |-> edge_type,
     weight_components |-> weight_components]

\* Edge.weight_total
weight_total(edge) == total(edge.weight_components)

\* ComplexityVector.raw_sum
raw_sum(v) == v.C + v.N + v.S + v.A + v.L

\* a variant without __post_init__: raw_sum stays as given
Metrics_as_given(entity_id, snapshot_id, v, rawsum, d, bucket, module_type, confidence) ==
    [entity_id |-> entity_id, snapshot_id |-> snapshot_id, x |-> v,
     raw_sum |-> rawsum, d |-> d, hodge |-> bucket, module_type |-> module_type,
     confidence |-> confidence]

\* the dataclass with its __post_init__
Metrics(entity_id, snapshot_id, v, rawsum, d, bucket, module_type, confidence) ==
    [entity_id |-> entity_id, snapshot_id |-> snapshot_id, x |-> v,
     raw_sum |-> IF rawsum = 0 THEN raw_sum(v) ELSE rawsum,
     d |-> d, hodge |-> bucket, module_type |-> module_type,
     confidence |-> confidence]

create_metrics(entity_id, snapshot_id, v, d, bucket, module_type, confidence) ==
    Metrics(entity_id, snapshot_id, v, raw_sum(v), d, bucket, module_type,
            confidence)

\* the snapshots the callers store: snap-2 is also stored for the commit of
\* snap-1
Snapshots ==
    {Snapshot(p[1], p[2], t, "test-repo", None, "dev") :
        p \in {<<"snap-1", <<"a", "b", "c", "1", "2", "3">>>>,
               <<"snap-2", <<"d", "e", "f", "4", "5", "6", "7", "8", "9">>>>,
               <<"snap-2", <<"a", "b", "c", "1", "2", "3">>>>},
        t \in Timestamps}

\* the entities the callers store: ent-2 is also stored with the path and
\* symbol of ent-1
Entities ==
    {Entity("ent-1", "func", "src/main.py", "func1", "python"),
     Entity("ent-2", "func", "src/util.py", "func2", "python"),
     Entity("ent-2", "func", "src/main.py", "func1", "python")}

\* the metrics the callers store: ent-1 is measured twice in snap-1, and in
\* snap-2 with confidence 0 and a bucket other than that of its largest score
MetricsRecords ==
    {create_metrics("ent-1", "snap-1", ComplexityVector(5, 3, 2, 1, 4), 15,
                    "algorithmic", "app", 10),
     Metrics("ent-1", "snap-1", ComplexityVector(0, 0, 0, 0, 0), 0, 10,
             "algorithmic", "app", 10),
     create_metrics("ent-2", "snap-1", [C |-> 2, N |-> 2, S |-> 10, A |-> 2, L |-> 5],
                    30, "architectural", "lib/domain", 5),
     Metrics("ent-1", "snap-2", ComplexityVector(5, 3, 2, 1, 4), 0, 5,
             "balanced", "app", 0)}

\* the edges the callers store: the boundary edge is stored with two weights
Edges ==
    {Edge("ent-1", "ent-2", "snap-1", "boundary", WeightComponents(0, 20, 0, 0)),
     Edge("ent-1", "ent-2", "snap-1", "boundary", WeightComponents(5, 10, 0, 0)),
     Edge("ent-2", "ent-1", "snap-1", "call", WeightComponents(10, 0, 0, 0))}

ANALYZER_VERSION == "0.0.13"

\* the database after _init_schema
EmptyStore ==
    [snapshots |-> {}, entities |-> {}, metrics |-> {}, rule_hits |-> {},
     edges |-> {}]

\* faulty variant: a plain INSERT that keeps the conflicting rows
insert_or_replace_keeps_old(table, row, uniques) == table \cup {row}

\* INSERT OR REPLACE: every row that agrees with the new row on all columns
\* of a PRIMARY KEY or UNIQUE constraint is deleted, then the row is added
insert_or_replace(table, row, uniques) ==
    {r \in table : \A u \in uniques : \E col \in u : r[col] # row[col]}
        \cup {row}

insert_snapshot(conn, snapshot) ==
    [conn EXCEPT !.snapshots =
        insert_or_replace(@,
            [snapshot_id |-> snapshot.snapshot_id, repo |-> snapshot.repo,
             commit_hash |-> snapshot.commit, release_id |-> release_id(snapshot),
             ts |-> isoformat(snapshot.timestamp),
             analyzer_version |-> ANALYZER_VERSION],
            {{"snapshot_id"}, {"repo", "commit_hash"}})]

insert_entity(conn, entity, repo) ==
    [conn EXCEPT !.entities =
        insert_or_replace(@,
            [entity_id |-> entity.entity_id, repo |-> repo,
             entity_type |-> entity.type, language |-> entity.language,
             path |-> entity.path, symbol |-> entity.symbol,
             fingerprint |-> <<entity.path, ":", entity.symbol, ":", entity.language>>],
            {{"entity_id"}, {"repo", "fingerprint"}})]

\* int() of a non-negative value in halves
int(halves) == halves \div 2

insert_metrics(conn, m) ==
    [conn EXCEPT !.metrics =
        insert_or_replace(@,
            [snapshot_id |-> m.snapshot_id, entity_id |-> m.entity_id,
             module_type |-> m.module_type,
             c |-> m.x.C, n |-> m.x.N, s |-> m.x.S, a |-> m.x.A, lambda |-> m.x.L,
             raw_sum |-> m.raw_sum, canonical_deviation |-> m.d,
             h_alg |-> int(m.x.C + m.x.N), h_bal |-> int(m.x.A),
             h_arch |-> int(m.x.S + m.x.L), confidence |-> m.confidence],
            {{"snapshot_id", "entity_id"}})]

\* json.dumps(WeightComponents.to_dict())
json_dumps(w) ==
    <<<<"coupling", w.coupling>>, <<"boundary", w.boundary>>,
      <<"cognitive", w.cognitive>>,
      <<"failure_propagation", w.failure_propagation>>>>

json_extract(text, key) ==
    LET i == CHOOSE i \in 1..Len(text) : text[i][1] = key IN text[i][2]

\* WeightComponents(**json.loads(text))
json_loads(text) ==
    WeightComponents(json_extract(text, "coupling"), json_extract(text, "boundary"),
                     json_extract(text, "cognitive"),
                     json_extract(text, "failure_propagation"))

insert_edge(conn, edge) ==
    [conn EXCEPT !.edges =
        insert_or_replace(@,
            [snapshot_id |-> edge.snapshot_id, src_entity_id |-> edge.src_entity,
             dst_entity_id |-> edge.dst_entity, edge_type |-> edge.edge_type,
             w_total |-> weight_total(edge),
             w_components |-> json_dumps(edge.weight_components)],
            {{"snapshot_id", "src_entity_id", "dst_entity_id", "edge_type"}})]

\* cursor.fetchone() on a result of at most one row
fetchone(rows) == IF rows = {} THEN None ELSE CHOOSE r \in rows : TRUE

get_snapshot(conn, snapshot_id) ==
    LET row == fetchone({r \in conn.snapshots : r.snapshot_id = snapshot_id})
    IN  IF row = None THEN None
        ELSE Snapshot(row.snapshot_id, row.commit_hash, fromisoformat(row.ts),
                      row.repo, None, "dev")

get_entity(conn, entity_id) ==
    LET row == fetchone({r \in conn.entities : r.entity_id = entity_id})
    IN  IF row = None THEN None
        ELSE Entity(row.entity_id, row.entity_type, row.path, row.symbol,
                    row.language)

\* faulty variant: the vector is rebuilt from the integer bucket scores
row_to_metrics_from_scores(row) ==
    Metrics(row.entity_id, row.snapshot_id,
            [C |-> 2 * row.h_alg, N |-> 0, S |-> 2 * row.h_arch,
             A |-> 2 * row.h_bal, L |-> 0],
            row.raw_sum, row.canonical_deviation, "algorithmic",
            row.module_type, row.confidence)

\* _row_to_metrics
row_to_metrics(row) ==
    LET v == [C |-> row.c, N |-> row.n, S |-> row.s, A |-> row.a, L |-> row.lambda]
        max_val == max(row.h_alg, row.h_bal, row.h_arch)
        max_key == IF row.h_alg = max_val THEN "algorithmic"
                   ELSE IF row.h_bal = max_val THEN "balanced"
                   ELSE "architectural"
    IN  Metrics(row.entity_id, row.snapshot_id, v, row.raw_sum,
                row.canonical_deviation, max_key, row.module_type,
                IF row.confidence = 0 THEN 10 ELSE row.confidence)

get_metrics(conn, snapshot_id, entity_id) ==
    LET row == fetchone({r \in conn.metrics :
                            r.snapshot_id = snapshot_id /\ r.entity_id = entity_id})
    IN  IF row = None THEN None ELSE row_to_metrics(row)

\* the lists that SELECT ... ORDER BY col DESC LIMIT n may return: rows with
\* equal keys come in any order
order_by_desc_limit(rows, col, n) ==
    LET lists == {l \in [1..Cardinality(rows) -> rows] :
                    /\ \A i, j \in DOMAIN l : l[i] = l[j] => i = j
                    /\ \A i, j \in DOMAIN l : i < j => l[i][col] >= l[j][col]}
    IN  {SubSeq(l, 1, IF Len(l) < n THEN Len(l) ELSE n) : l \in lists}

get_hotspots(conn, snapshot_id, n) ==
    order_by_desc_limit(
        {[entity_type |-> e.entity_type, path |-> e.path, symbol |-> e.symbol,
          canonical_deviation |-> m.canonical_deviation, raw_sum |-> m.raw_sum] :
            <<m, e>> \in {p \in conn.metrics \X conn.entities :
                            /\ p[2].entity_id = p[1].entity_id
                            /\ p[1].snapshot_id = snapshot_id}},
        "canonical_deviation", n)

get_delta_deviations(conn, sid_cur, sid_prev, n) ==
    LET cur == {m \in conn.metrics : m.snapshot_id = sid_cur}
        prev == {m \in conn.metrics : m.snapshot_id = sid_prev}
    IN  order_by_desc_limit(
            {[path |-> t[3].path, symbol |-> t[3].symbol,
              delta_d |-> t[1].canonical_deviation - t[2].canonical_deviation] :
                t \in {q \in cur \X prev \X conn.entities :
                         /\ q[1].entity_id = q[2].entity_id
                         /\ q[3].entity_id = q[1].entity_id}},
            "delta_d", n)

\* SUM(col): NULL over no rows
RECURSIVE sql_sum(_, _)
sql_sum(rows, col) ==
    IF rows = {} THEN [null |-> TRUE, value |-> 0]
    ELSE LET r == CHOOSE r \in rows : TRUE
         IN  [null |-> FALSE, value |-> r[col] + sql_sum(rows \ {r}, col).value]

\* row[...] or 0.0
or_zero(cell) == IF cell.null \/ cell.value = 0 THEN 0 ELSE cell.value

get_boundary_flux(conn, snapshot_id) ==
    or_zero(sql_sum({r \in conn.edges :
                        /\ r.snapshot_id = snapshot_id
                        /\ \/ r.edge_type = "boundary"
                           \/ json_extract(r.w_components, "boundary") > 0},
                    "w_total"))

get_phi(conn, snapshot_id) ==
    or_zero(sql_sum({r \in conn.metrics : r.snapshot_id = snapshot_id},
                    "canonical_deviation"))

\* the Edge objects of the rows, their order left open
get_edges(conn, snapshot_id) ==
    {Edge(r.src_entity_id, r.dst_entity_id, r.snapshot_id, r.edge_type,
          json_loads(r.w_components)) :
        r \in {r \in conn.edges : r.snapshot_id = snapshot_id}}

\* the ids the callers ask for: a stored one and one that is never stored
AskedSnapshotIds == {"snap-1", "snap-0"}
AskedEntityIds == {"ent-1", "ent-0"}

\* the (current, previous) snapshots the callers compare
AskedDeltas == {<<"snap-2", "snap-1">>, <<"snap-1", "snap-0">>}

\* LIMIT arguments: below and above the number of rows
Limits == {1, 20}

Returns(query, args, value) == [query |-> query, args |-> args, value |-> value]

\* before any call
NoAnswer == Returns("", <<>>, None)

StoreInit ==
    /\ db = EmptyStore
    /\ answer = NoAnswer

InsertSnapshot(snapshot) ==
    /\ db' = insert_snapshot(db, snapshot)
    /\ answer' = Returns("insert_snapshot", <<snapshot>>, snapshot.snapshot_id)
    /\ UNCHANGED <<coreVars, bestVars, hodgeVars, batchVars, identityVars, measureVars,
                   gateVars>>

InsertEntity(entity, repo) ==
    /\ db' = insert_entity(db, entity, repo)
    /\ answer' = Returns("insert_entity", <<entity, repo>>, entity.entity_id)
    /\ UNCHANGED <<coreVars, bestVars, hodgeVars, batchVars, identityVars, measureVars,
                   gateVars>>

InsertMetrics(m) ==
    /\ db' = insert_metrics(db, m)
    /\ answer' = Returns("insert_metrics", <<m>>, None)
    /\ UNCHANGED <<coreVars, bestVars, hodgeVars, batchVars, identityVars, measureVars,
                   gateVars>>

InsertEdge(edge) ==
    /\ db' = insert_edge(db, edge)
    /\ answer' = Returns("insert_edge", <<edge>>, None)
    /\ UNCHANGED <<coreVars, bestVars, hodgeVars, batchVars, identityVars, measureVars,
                   gateVars>>

\* faulty variant: reading a metrics record deletes its row
GetMetricsAndDelete(snapshot_id, entity_id) ==
    /\ answer' = Returns("get_metrics", <<snapshot_id, entity_id>>,
                         get_metrics(db, snapshot_id, entity_id))
    /\ db' = [db EXCEPT !.metrics =
                {r \in @ : r.snapshot_id # snapshot_id \/ r.entity_id # entity_id}]
    /\ UNCHANGED <<coreVars, bestVars, hodgeVars, batchVars, identityVars, measureVars,
                   gateVars>>

GetSnapshot(snapshot_id) ==
    /\ answer' = Returns("get_snapshot", <<snapshot_id>>,
                         get_snapshot(db, snapshot_id))
    /\ UNCHANGED db
    /\ UNCHANGED <<coreVars, bestVars, hodgeVars, batchVars, identityVars, measureVars,
                   gateVars>>

GetEntity(entity_id) ==
    /\ answer' = Returns("get_entity", <<entity_id>>, get_entity(db, entity_id))
    /\ UNCHANGED db
    /\ UNCHANGED <<coreVars, bestVars, hodgeVars, batchVars, identityVars, measureVars,
                   gateVars>>

GetMetrics(snapshot_id, entity_id) ==
    /\ answer' = Returns("get_metrics", <<snapshot_id, entity_id>>,
                         get_metrics(db, snapshot_id, entity_id))
    /\ UNCHANGED db
    /\ UNCHANGED <<coreVars, bestVars, hodgeVars, batchVars, identityVars, measureVars,
                   gateVars>>

GetHotspots(snapshot_id, n) ==
    /\ \E rows \in get_hotspots(db, snapshot_id, n) :
          answer' = Returns("get_hotspots", <<snapshot_id, n>>, rows)
    /\ UNCHANGED db
    /\ UNCHANGED <<coreVars, bestVars, hodgeVars, batchVars, identityVars, measureVars,
                   gateVars>>

GetDeltaDeviations(sid_cur, sid_prev, n) ==
    /\ \E rows \in get_delta_deviations(db, sid_cur, sid_prev, n) :
          answer' = Returns("get_delta_deviations", <<sid_cur, sid_prev, n>>, rows)
    /\ UNCHANGED db
    /\ UNCHANGED <<coreVars, bestVars, hodgeVars, batchVars, identityVars, measureVars,
                   gateVars>>

GetBoundaryFlux(snapshot_id) ==
    /\ answer' = Returns("get_boundary_flux", <<snapshot_id>>,
                         get_boundary_flux(db, snapshot_id))
    /\ UNCHANGED db
    /\ UNCHANGED <<coreVars, bestVars, hodgeVars, batchVars, identityVars, measureVars,
                   gateVars>>

GetPhi(snapshot_id) ==
    /\ answer' = Returns("get_phi", <<snapshot_id>>, get_phi(db, snapshot_id))
    /\ UNCHANGED db
    /\ UNCHANGED <<coreVars, bestVars, hodgeVars, batchVars, identityVars, measureVars,
                   gateVars>>

GetEdges(snapshot_id) ==
    /\ answer' = Returns("get_edges", <<snapshot_id>>, get_edges(db, snapshot_id))
    /\ UNCHANGED db
    /\ UNCHANGED <<coreVars, bestVars, hodgeVars, batchVars, identityVars, measureVars,
                   gateVars>>

\* some caller writes
Write ==
    \/ \E snapshot \in Snapshots : InsertSnapshot(snapshot)
    \/ \E entity \in Entities : InsertEntity(entity, "test-repo")
    \/ \E m \in MetricsRecords : InsertMetrics(m)
    \/ \E edge \in Edges : InsertEdge(edge)

\* some caller asks
Query ==
    \/ \E sid \in SnapshotIds \cup AskedSnapshotIds : GetSnapshot(sid)
    \/ \E eid \in AskedEntityIds : GetEntity(eid)
    \/ \E sid \in AskedSnapshotIds, eid \in AskedEntityIds : GetMetrics(sid, eid)
    \/ \E sid \in AskedSnapshotIds, n \in Limits : GetHotspots(sid, n)
    \/ \E p \in AskedDeltas : GetDeltaDeviations(p[1], p[2], 50)
    \/ \E sid \in AskedSnapshotIds : GetBoundaryFlux(sid)
    \/ \E sid \in AskedSnapshotIds : GetPhi(sid)
    \/ \E sid \in AskedSnapshotIds : GetEdges(sid)

\* a writer stores one snapshot: insert_snapshot, then insert_metrics for
\* each of its metrics, then insert_edge for each of its edges; every call
\* ends with its own conn.commit()
DistinctKeys(l, cols) ==
    \A i, j \in DOMAIN l : (\A col \in cols : l[i][col] = l[j][col]) => i = j

Batches ==
    [snapshot : {sn \in Snapshots : sn.snapshot_id = "snap-1"},
     metrics : {l \in SeqsUpTo({m \in MetricsRecords : m.snapshot_id = "snap-1"}, 2) :
                  l # <<>> /\ DistinctKeys(l, {"entity_id"})},
     edges : {l \in SeqsUpTo({ed \in Edges : ed.snapshot_id = "snap-1"}, 2) :
                DistinctKeys(l, {"src_entity", "dst_entity", "edge_type"})}]

NoBatch == [snapshot |-> None, metrics |-> <<>>, edges |-> <<>>]

\* the entities are stored before the snapshots that measure them
StoredEntities ==
    insert_entity(
        insert_entity(EmptyStore,
                      Entity("ent-1", "func", "src/main.py", "func1", "python"),
                      "test-repo"),
        Entity("ent-2", "func", "src/util.py", "func2", "python"), "test-repo")

BatchInit ==
    /\ db = StoredEntities
    /\ answer = NoAnswer
    /\ batch \in Batches
    /\ pc = 0
    /\ seen = NoAnswer

BatchIdle ==
    /\ batch = NoBatch
    /\ pc = 0
    /\ seen = NoAnswer

WriterInsertSnapshot ==
    /\ pc = 0
    /\ db' = insert_snapshot(db, batch.snapshot)
    /\ answer' = Returns("insert_snapshot", <<batch.snapshot>>,
                         batch.snapshot.snapshot_id)
    /\ pc' = pc + 1
    /\ UNCHANGED <<batch, seen>>
    /\ UNCHANGED <<coreVars, bestVars, hodgeVars, identityVars, measureVars,
                   gateVars>>

WriterInsertMetrics ==
    /\ pc >= 1
    /\ pc <= Len(batch.metrics)
    /\ db' = insert_metrics(db, batch.metrics[pc])
    /\ answer' = Returns("insert_metrics", <<batch.metrics[pc]>>, None)
    /\ pc' = pc + 1
    /\ UNCHANGED <<batch, seen>>
    /\ UNCHANGED <<coreVars, bestVars, hodgeVars, identityVars, measureVars,
                   gateVars>>

WriterInsertEdge ==
    /\ pc > Len(batch.metrics)
    /\ pc <= Len(batch.metrics) + Len(batch.edges)
    /\ db' = insert_edge(db, batch.edges[pc - Len(batch.metrics)])
    /\ answer' = Returns("insert_edge", <<batch.edges[pc - Len(batch.metrics)]>>, None)
    /\ pc' = pc + 1
    /\ UNCHANGED <<batch, seen>>
    /\ UNCHANGED <<coreVars, bestVars, hodgeVars, identityVars, measureVars,
                   gateVars>>

\* a reader on another connection sees what has been committed
ReaderGetSnapshot ==
    /\ seen' = Returns("get_snapshot", <<batch.snapshot.snapshot_id>>,
                       get_snapshot(db, batch.snapshot.snapshot_id))
    /\ UNCHANGED <<storeVars, batch, pc>>
    /\ UNCHANGED <<coreVars, bestVars, hodgeVars, identityVars, measureVars,
                   gateVars>>

ReaderGetHotspots ==
    /\ \E rows \in get_hotspots(db, batch.snapshot.snapshot_id, 20) :
          seen' = Returns("get_hotspots", <<batch.snapshot.snapshot_id, 20>>, rows)
    /\ UNCHANGED <<storeVars, batch, pc>>
    /\ UNCHANGED <<coreVars, bestVars, hodgeVars, identityVars, measureVars,
                   gateVars>>

ReaderGetPhi ==
    /\ seen' = Returns("get_phi", <<batch.snapshot.snapshot_id>>,
                       get_phi(db, batch.snapshot.snapshot_id))
    /\ UNCHANGED <<storeVars, batch, pc>>
    /\ UNCHANGED <<coreVars, bestVars, hodgeVars, identityVars, measureVars,
                   gateVars>>

ReaderGetBoundaryFlux ==
    /\ seen' = Returns("get_boundary_flux", <<batch.snapshot.snapshot_id>>,
                       get_boundary_flux(db, batch.snapshot.snapshot_id))
    /\ UNCHANGED <<storeVars, batch, pc>>
    /\ UNCHANGED <<coreVars, bestVars, hodgeVars, identityVars, measureVars,
                   gateVars>>

----------------------------------------------------------------------------
(* graph/entity.py and graph/snapshot.py: the identities of entities and   *)
(* snapshots. Texts that are rewritten or joined are sequences of          *)
(* characters.                                                             *)

\* str.replace(old, new) for one-character old and new
replace(text, old, new) ==
    [i \in DOMAIN text |-> IF text[i] = old THEN new ELSE text[i]]

\* sep.join(parts)
RECURSIVE join(_, _)
join(sep, parts) ==
    IF parts = <<>> THEN <<>>
    ELSE IF Len(parts) = 1 THEN parts[1]
    ELSE parts[1] \o sep \o join(sep, Tail(parts))

\* hashlib.sha256(text.encode()).hexdigest()[:16]: a value fixed by the
\* hashed text; the digests of different texts are taken to differ
sha256_hexdigest_16(text) == <<"sha256">> \o text

\* `if content_hash:` holds for a given, non-empty text
truthy(optional_text) == optional_text.given /\ optional_text.scores # <<>>

create_entity_id(path, symbol, language, content_hash) ==
    LET normalized_path == replace(path, "\\", "/")
        fingerprint_parts ==
            IF truthy(content_hash)
            THEN <<normalized_path, symbol, language, content_hash.scores>>
            ELSE <<normalized_path, symbol, language>>
        fingerprint == join(<<":">>, fingerprint_parts)
    IN  sha256_hexdigest_16(fingerprint)

create_entity(path, symbol, entity_type, language, content_hash) ==
    Entity(create_entity_id(path, symbol, language, content_hash),
           entity_type, path, symbol, language)

\* str(uuid.uuid4()): a fresh random value at every call
UUIDs == {"uuid-1", "uuid-2"}

\* create_snapshot, with the uuid4 and the clock reading it draws
create_snapshot(commit, repo, service, env, timestamp, uuid4, now) ==
    Snapshot(uuid4, commit,
             IF timestamp = None THEN now ELSE timestamp.scores,
             repo, service, env)

Paths == {<<"a", "/", "b">>, <<"a", "\\", "b">>, <<"a", "b">>}
Symbols == {<<"f">>, <<"g">>}
Languages == {<<"p", "y", "t", "h", "o", "n">>, <<"g", "o">>}
ContentHashes == {None, Some(<<>>), Some(<<"h", "1">>)}
Commits == {<<"a", "b", "c", "1", "2", "3">>,
            <<"d", "e", "f", "4", "5", "6", "7", "8", "9">>}
Repos == {"test-repo", "other-repo"}

\* the number of objects created over the analyses
MaxObjects == 2

IdentityInit ==
    /\ created_entities = {}
    /\ created_snapshots = {}

CreateEntity(path, symbol, entity_type, language, content_hash) ==
    /\ Cardinality(created_entities) + Cardinality(created_snapshots) < MaxObjects
    /\ created_entities' = created_entities \cup
          {[content_hash |-> content_hash,
            entity |-> create_entity(path, symbol, entity_type, language,
                                     content_hash)]}
    /\ UNCHANGED created_snapshots
    /\ UNCHANGED <<coreVars, bestVars, hodgeVars, storeVars, batchVars, measureVars,
                   gateVars>>

CreateSnapshot(commit, repo, service, env, timestamp) ==
    /\ Cardinality(created_entities) + Cardinality(created_snapshots) < MaxObjects
    /\ \E uuid4 \in UUIDs, now \in Timestamps :
          created_snapshots' = created_snapshots \cup
              {create_snapshot(commit, repo, service, env, timestamp, uuid4, now)}
    /\ UNCHANGED created_entities
    /\ UNCHANGED <<coreVars, bestVars, hodgeVars, storeVars, batchVars, measureVars,
                   gateVars>>

----------------------------------------------------------------------------
(* measurement/vector.py: VectorAnalyzer. A source text is represented by  *)
(* what ast.parse makes of it: the exception it raises, or the tree. The   *)
(* tree is the sequence of its nodes in document order (a parent before    *)
(* its children), each with its level below the Module node; nodes that no *)
(* measure examines are left out.                                          *)

NoArguments ==
    [posonlyargs |-> <<>>, args |-> <<>>, kwonlyargs |-> <<>>,
     vararg |-> FALSE, kwarg |-> FALSE]

Node(type, names, targets, args) ==
    [type |-> type, names |-> names, targets |-> targets, args |-> args]

\* an assignment target: an attribute of a name, or something else
Attribute(value_id) == [attribute |-> TRUE, value_id |-> value_id]

\* the nodes the sources are built from: a while statement is measured as
\* a for statement and an await expression as an async for statement, so
\* the sources have only the latter of each
Nodes ==
    {Node(type, <<>>, <<>>, NoArguments) :
        type \in {"If", "For", "Try", "TryStar", "Match", "With",
                  "ExceptHandler", "match_case", "comprehension",
                  "AsyncFor", "Import"}}
    \cup {Node("Global", <<"a", "b">>, <<>>, NoArguments),
          Node("Assign", <<>>, <<Attribute("self"), Attribute("other")>>,
               NoArguments),
          Node("AsyncFunctionDef", <<>>, <<>>,
               [NoArguments EXCEPT !.args = <<"self", "a", "b", "c", "d", "e">>]),
          Node("FunctionDef", <<>>, <<>>,
               [NoArguments EXCEPT !.args = <<"a", "b", "c", "d", "e">>,
                                   !.vararg = TRUE])}

ExpressionTypes == {"comprehension", "Await"}

\* whether the grammar lets a node of the type stand directly below the parent
\* ("Module" for the top level)
MayHold(parent, type) ==
    IF type = "ExceptHandler" THEN parent \in {"Try", "TryStar"}
    ELSE IF type = "match_case" THEN parent = "Match"
    ELSE IF parent = "Match" THEN type \in ExpressionTypes
    ELSE IF parent \in ExpressionTypes \cup {"Assign"} THEN type \in ExpressionTypes
    ELSE parent \notin {"Global", "Import"}

\* the index of the parent of a node at the level, appended to the tree
ParentIn(tree, level) ==
    IF level = 1 THEN 0
    ELSE CHOOSE j \in DOMAIN tree :
            /\ tree[j].level = level - 1
            /\ \A k \in DOMAIN tree : k > j => tree[k].level >= level

TypeAt(tree, j) == IF j = 0 THEN "Module" ELSE tree[j].type

RECURSIVE Trees(_)
Trees(n) ==
    IF n = 0 THEN {<<>>}
    ELSE LET smaller == Trees(n - 1)
         IN  smaller \cup
             {Append(tree, [node |-> node, type |-> node.type, level |-> level]) :
                <<tree, node, level>> \in
                    {e \in {tr \in smaller : Len(tr) = n - 1} \X Nodes \X (1..n) :
                        /\ e[3] <= (IF e[1] = <<>> THEN 1 ELSE Last(e[1]).level + 1)
                        /\ MayHold(TypeAt(e[1], ParentIn(e[1], e[3])), e[2].type)}}

\* a match statement has at least one case
Complete(tree) ==
    \A i \in DOMAIN tree :
        tree[i].type = "Match" =>
            \E j \in DOMAIN tree :
                /\ j > i
                /\ tree[j].type = "match_case"
                /\ tree[j].level = tree[i].level + 1
                /\ \A k \in (i + 1)..j : tree[k].level > tree[i].level

\* the number of nodes of a source
MaxNodes == 3

Parsed(tree) == [error |-> "", tree |-> tree]
Unparsable(error) == [error |-> error, tree |-> <<>>]

\* what ast.parse raises for a text it cannot parse: SyntaxError and its
\* subclass IndentationError, UnicodeEncodeError for a lone surrogate,
\* RecursionError and MemoryError for a deeply nested expression
ParseErrors ==
    {"SyntaxError", "IndentationError", "UnicodeEncodeError", "RecursionError",
     "MemoryError"}

\* the classes an `except SyntaxError` clause catches
SyntaxErrors == {"SyntaxError", "IndentationError", "TabError"}

Sources ==
    {Parsed(tree) : tree \in {t \in Trees(MaxNodes) : Complete(t)}}
    \cup {Unparsable(error) : error \in ParseErrors}

\* ast.walk: breadth first, so level by level and in document order within
\* a level; the nodes are given by their index in the tree
RECURSIVE walk_from(_, _)
walk_from(tree, level) ==
    IF level > Len(tree) THEN <<>>
    ELSE SelectSeq([i \in DOMAIN tree |-> i], LAMBDA i : tree[i].level = level)
             \o walk_from(tree, level + 1)

walk(tree) == walk_from(tree, 1)

\* the position of a node stands for its line and column
Location(file, line, ast_node_type) ==
    [file |-> file, line |-> line, ast_node_type |-> ast_node_type]

RuleHit(entity_id, snapshot_id, rule_id, count, locations) ==
    [entity_id |-> entity_id, snapshot_id |-> snapshot_id, rule_id |-> rule_id,
     count |-> count, locations |-> locations]

\* what a _measure_ method returns and what it appends to the rule hits
Measured(value, hits) == [value |-> value, hits |-> hits]

\* `if locations: hits.append(RuleHit(...))`
hits_if(locations, entity_id, snapshot_id, rule_id, count) ==
    IF locations # <<>>
    THEN <<RuleHit(entity_id, snapshot_id, rule_id, count, locations)>>
    ELSE <<>>

\* a variant that counts the handlers of a try statement and the cases of a
\* match statement, not the statements
_measure_control_per_clause(tree, entity_id, snapshot_id, file_path) ==
    LET found == SelectSeq(walk(tree),
                     LAMBDA i : tree[i].type \in {"If", "For", "While",
                                    "ExceptHandler", "match_case", "With"})
        locations == [k \in DOMAIN found |->
                         Location(file_path, found[k], tree[found[k]].type)]
    IN  Measured(2 * Len(found),
                 hits_if(locations, entity_id, snapshot_id, "control/branch",
                         Len(found)))

\* the values are in halves, as the components of the vector
_measure_control(tree, entity_id, snapshot_id, file_path) ==
    LET found == SelectSeq(walk(tree),
                     LAMBDA i : tree[i].type \in {"If", "For", "While", "Try",
                                                  "Match", "With"})
        locations == [k \in DOMAIN found |->
                         Location(file_path, found[k], tree[found[k]].type)]
    IN  Measured(2 * Len(found),
                 hits_if(locations, entity_id, snapshot_id, "control/branch",
                         Len(found)))

\* walk_depth over the nodes from the i-th on; depths[l] is the depth that
\* the latest node of level l hands to its children
RECURSIVE walk_depth(_, _, _, _, _)
walk_depth(tree, i, depths, max_depth, deepest_location) ==
    IF i > Len(tree) THEN [max_depth |-> max_depth,
                           deepest_location |-> deepest_location]
    ELSE LET level == tree[i].level
             handed == IF level = 1 THEN 0 ELSE depths[level - 1]
             nests == tree[i].type \in {"If", "For", "While", "Try", "With",
                                        "FunctionDef", "AsyncFunctionDef"}
             depth == IF nests THEN handed + 1 ELSE handed
             deeper == nests /\ depth > max_depth
         IN  walk_depth(tree, i + 1, Append(SubSeq(depths, 1, level - 1), depth),
                        IF deeper THEN depth ELSE max_depth,
                        IF deeper THEN <<i>> ELSE deepest_location)

_measure_nesting(tree, entity_id, snapshot_id, file_path) ==
    LET walked == walk_depth(tree, 1, <<>>, 0, <<>>)
        locations == [k \in DOMAIN walked.deepest_location |->
                         Location(file_path, walked.deepest_location[k],
                                  tree[walked.deepest_location[k]].type)]
    IN  Measured(2 * walked.max_depth,
                 hits_if(locations, entity_id, snapshot_id, "nesting/depth",
                         walked.max_depth))

\* the targets of an assignment that are attributes of self
self_targets(node) ==
    SelectSeq(node.targets, LAMBDA t : t.attribute /\ t.value_id = "self")

\* the loop of _measure_state over the nodes still to visit
RECURSIVE state_loop(_, _, _, _, _)
state_loop(tree, todo, file_path, count, locations) ==
    IF todo = <<>> THEN [count |-> count, locations |-> locations]
    ELSE LET i == Head(todo)
             node == tree[i].node
         IN  IF node.type \in {"Global", "Nonlocal"}
             THEN state_loop(tree, Tail(todo), file_path, count + Len(node.names),
                             Append(locations,
                                    Location(file_path, i, node.type)))
             ELSE IF node.type = "Assign"
             THEN state_loop(tree, Tail(todo), file_path,
                             count + Len(self_targets(node)),
                             locations \o
                                [k \in DOMAIN self_targets(node) |->
                                    Location(file_path, i, "SelfAttributeAssign")])
             ELSE state_loop(tree, Tail(todo), file_path, count, locations)

_measure_state(tree, entity_id, snapshot_id, file_path) ==
    LET looped == state_loop(tree, walk(tree), file_path, 0, <<>>)
    IN  Measured(2 * looped.count,
                 hits_if(looped.locations, entity_id, snapshot_id,
                         "state/mutation", looped.count))

_measure_async(tree, entity_id, snapshot_id, file_path) ==
    LET found == SelectSeq(walk(tree),
                     LAMBDA i : tree[i].type \in {"AsyncFunctionDef", "Await",
                                                  "AsyncFor", "AsyncWith"})
        locations == [k \in DOMAIN found |->
                         Location(file_path, found[k], tree[found[k]].type)]
    IN  Measured(2 * Len(found),
                 hits_if(locations, entity_id, snapshot_id, "async/complexity",
                         Len(found)))

total_params(args) ==
    LET counted == Len(args.posonlyargs) + Len(args.args) + Len(args.kwonlyargs)
                    + (IF args.vararg THEN 1 ELSE 0)
                    + (IF args.kwarg THEN 1 ELSE 0)
    IN  IF args.args # <<>> /\ args.args[1] \in {"self", "cls"}
        THEN counted - 1
        ELSE counted

\* import_count * 0.5 + param_violations * 2.0, in halves
_measure_coupling(tree, entity_id, snapshot_id, file_path) ==
    LET imports == SelectSeq(walk(tree),
                       LAMBDA i : tree[i].type \in {"Import", "ImportFrom"})
        violations == SelectSeq(walk(tree),
                          LAMBDA i : /\ tree[i].type \in {"FunctionDef",
                                                          "AsyncFunctionDef"}
                                     /\ total_params(tree[i].node.args) > 5)
        found == SelectSeq(walk(tree),
                     LAMBDA i : \/ \E k \in DOMAIN imports : imports[k] = i
                                \/ \E k \in DOMAIN violations : violations[k] = i)
        locations == [k \in DOMAIN found |->
                         Location(file_path, found[k],
                                  IF tree[found[k]].type \in {"Import", "ImportFrom"}
                                  THEN "Import" ELSE "ExcessiveParams")]
    IN  Measured(Len(imports) + 4 * Len(violations),
                 hits_if(locations, entity_id, snapshot_id, "coupling/dependency",
                         Len(imports) + Len(violations)))

VectorMeasurement(v, rule_hits) ==
    [measured |-> TRUE, raised |-> "", vector |-> v, rule_hits |-> rule_hits]

zero == [C |-> 0, N |-> 0, S |-> 0, A |-> 0, L |-> 0]

\* before measure is called
NoMeasurement ==
    [measured |-> FALSE, raised |-> "", vector |-> zero, rule_hits |-> <<>>]

\* the call ended with the exception and returned nothing
Propagated(exception) ==
    [measured |-> TRUE, raised |-> exception, vector |-> zero, rule_hits |-> <<>>]

\* VectorAnalyzer.measure: `except SyntaxError` around ast.parse, every
\* other exception of ast.parse leaves the method
measure(src, entity_id, snapshot_id, file_path) ==
    IF src.error \in SyntaxErrors THEN VectorMeasurement(zero, <<>>)
    ELSE IF src.error # "" THEN Propagated(src.error)
    ELSE LET tree == src.tree
             control == _measure_control(tree, entity_id, snapshot_id, file_path)
             nesting == _measure_nesting(tree, entity_id, snapshot_id, file_path)
             state == _measure_state(tree, entity_id, snapshot_id, file_path)
             async_val == _measure_async(tree, entity_id, snapshot_id, file_path)
             coupling == _measure_coupling(tree, entity_id, snapshot_id, file_path)
         IN  VectorMeasurement(
                 [C |-> control.value, N |-> nesting.value, S |-> state.value,
                  A |-> async_val.value, L |-> coupling.value],
                 control.hits \o nesting.hits \o state.hits \o async_val.hits
                     \o coupling.hits)

MeasureInit ==
    /\ source \in Sources
    /\ measurement = NoMeasurement

MeasureIdle ==
    /\ source = Unparsable("SyntaxError")
    /\ measurement = NoMeasurement

Measure ==
    /\ measurement' = measure(source, "ent-1", "snap-1", "test.py")
    /\ UNCHANGED source
    /\ UNCHANGED <<coreVars, bestVars, hodgeVars, storeVars, batchVars,
                   identityVars, gateVars>>

----------------------------------------------------------------------------
(* gate/adr: the exception records (ADR documents), their parser, their    *)
(* validator and their expiry. A date is its proleptic ordinal, a          *)
(* timedelta its number of days, a text that is parsed a sequence of       *)
(* characters.                                                             *)

\* how a call ended: with a value, or with an exception
Result(value) == [called |-> TRUE, raised |-> "", value |-> value]
Raises(exception) == [called |-> TRUE, raised |-> exception, value |-> 0]

\* before the call
NotCalled == [called |-> FALSE, raised |-> "", value |-> 0]

Whitespace == {" "}
Digits == <<"0", "1", "2", "3", "4", "5", "6", "7", "8", "9">>

\* str.strip()
RECURSIVE lstrip(_)
lstrip(text) ==
    IF text # <<>> /\ Head(text) \in Whitespace THEN lstrip(Tail(text)) ELSE text

RECURSIVE rstrip(_)
rstrip(text) ==
    IF text # <<>> /\ Last(text) \in Whitespace
    THEN rstrip(SubSeq(text, 1, Len(text) - 1))
    ELSE text

strip(text) == rstrip(lstrip(text))

\* str.lower() on the letters of the texts
lower(text) ==
    [i \in DOMAIN text |->
        CASE text[i] = "D" -> "d"
          [] text[i] = "M" -> "m"
          [] text[i] = "Y" -> "y"
          [] OTHER -> text[i]]

\* the value of a digit
DigitValue(c) == (CHOOSE i \in DOMAIN Digits : Digits[i] = c) - 1

IsDigit(c) == \E i \in DOMAIN Digits : Digits[i] = c

\* the value of a non-empty run of digits
RECURSIVE Decimal(_)
Decimal(digits) ==
    IF Len(digits) = 1 THEN DigitValue(digits[1])
    ELSE 10 * Decimal(SubSeq(digits, 1, Len(digits) - 1)) + DigitValue(Last(digits))

\* the largest number of decimal digits whose value the model computes
\* (every longer run is beyond the range of a timedelta)
MAX_EXACT_DIGITS == 9

\* int(text): surrounding whitespace and one sign are allowed around a
\* non-empty run of digits; the value of a longer run than MAX_EXACT_DIGITS
\* digits is given as one beyond the timedelta range
int_of_text(text) ==
    LET stripped == strip(text)
        signed == stripped # <<>> /\ Head(stripped) \in {"+", "-"}
        digits == IF signed THEN Tail(stripped) ELSE stripped
        magnitude == IF Len(digits) > MAX_EXACT_DIGITS THEN 1000000000
                     ELSE Decimal(digits)
    IN  IF digits = <<>> \/ \E i \in DOMAIN digits : ~IsDigit(digits[i])
        THEN Raises("ValueError")
        ELSE Result(IF signed /\ Head(stripped) = "-" THEN 0 - magnitude
                    ELSE magnitude)

\* timedelta(days=...) accepts a magnitude of at most 999999999 days
TIMEDELTA_MAX_DAYS == 999999999

timedelta(days) ==
    IF days > TIMEDELTA_MAX_DAYS \/ days < 0 - TIMEDELTA_MAX_DAYS
    THEN Raises("OverflowError")
    ELSE Result(days)

\* timedelta(days=int(...) * factor), with the exception of int() going on
timedelta_of(number, factor) ==
    IF number.raised # "" THEN number ELSE timedelta(number.value * factor)

\* a variant that takes every text without a unit for 180 days
_parse_timedelta_default_only(value) ==
    IF value = <<>> THEN timedelta(180)
    ELSE LET text == lower(strip(value))
         IN  IF text # <<>> /\ Last(text) = "d"
             THEN timedelta_of(int_of_text(SubSeq(text, 1, Len(text) - 1)), 1)
             ELSE IF text # <<>> /\ Last(text) = "m"
             THEN timedelta_of(int_of_text(SubSeq(text, 1, Len(text) - 1)), 30)
             ELSE IF text # <<>> /\ Last(text) = "y"
             THEN timedelta_of(int_of_text(SubSeq(text, 1, Len(text) - 1)), 365)
             ELSE timedelta(180)

_parse_timedelta(value) ==
    IF value = <<>> THEN timedelta(180)
    ELSE LET text == lower(strip(value))
         IN  IF text # <<>> /\ Last(text) = "d"
             THEN timedelta_of(int_of_text(SubSeq(text, 1, Len(text) - 1)), 1)
             ELSE IF text # <<>> /\ Last(text) = "m"
             THEN timedelta_of(int_of_text(SubSeq(text, 1, Len(text) - 1)), 30)
             ELSE IF text # <<>> /\ Last(text) = "y"
             THEN timedelta_of(int_of_text(SubSeq(text, 1, Len(text) - 1)), 365)
             ELSE LET number == int_of_text(text)
                  IN  IF number.raised = "ValueError" THEN timedelta(180)
                      ELSE timedelta(number.value)

\* the characters and the length of the short grace-period strings
GraceCharacters == {"1", "9", "d", "D", "m", "y", "x", " ", "-"}
MaxText == 3

\* the length of the longest run of nines
MaxDigits == 10

\* the grace-period strings: every short text, and runs of nines with and
\* without a unit
GraceTexts ==
    SeqsUpTo(GraceCharacters, MaxText)
    \cup {[i \in 1..k |-> "9"] : k \in 1..MaxDigits}
    \cup {[i \in 1..k |-> "9"] \o <<"d">> : k \in 1..MaxDigits}

GraceInit ==
    /\ grace_text \in GraceTexts
    /\ grace_period = NotCalled

GraceIdle ==
    /\ grace_text = <<>>
    /\ grace_period = NotCalled

ParseTimedelta ==
    /\ grace_period' = _parse_timedelta(grace_text)
    /\ UNCHANGED <<grace_text, adr, today, validation, expiry>>
    /\ UNCHANGED <<coreVars, bestVars, hodgeVars, storeVars, batchVars,
                   identityVars, measureVars>>

\* date.min and date.max as ordinals
DATE_MIN == 1
DATE_MAX == 3652059

\* date + timedelta
date_add(day, days) ==
    IF day + days < DATE_MIN \/ day + days > DATE_MAX
    THEN Raises("OverflowError")
    ELSE Result(day + days)

ApprovalInfo(approved_date, grace, approver) ==
    [approved_date |-> approved_date, grace_period |-> grace, approver |-> approver]

\* ApprovalInfo.expiry_date
expiry_date(approval) == date_add(approval.approved_date, approval.grace_period)

\* delta_phi and epsilon in thousandths
ConvergenceProof(snapshot_before, snapshot_after, delta_phi, eps, iterations, evidence_complete) ==
    [given |-> TRUE, snapshot_before |-> snapshot_before,
     snapshot_after |-> snapshot_after, delta_phi |-> delta_phi, epsilon |-> eps,
     iterations |-> iterations, evidence_complete |-> evidence_complete]

\* convergence = None
NoProof == [ConvergenceProof("", "", 0, 0, 0, FALSE) EXCEPT !.given = FALSE]

TargetFile(path, signals) == [path |-> path, signals |-> signals]

\* an optional number or date that is None
NoNumber == [given |-> FALSE, scores |-> 0]

\* schema.Thresholds; nesting and concepts: NoNumber or Some(number)
ADRThresholds(nesting, concepts) == [nesting |-> nesting, concepts |-> concepts]

ADRDocument(id, title, status, approval, proof, targets, thresholds, rationale) ==
    [schema_version |-> "1.0", id |-> id, title |-> title, status |-> status,
     approval |-> approval, convergence |-> proof, targets |-> targets,
     thresholds |-> thresholds, rationale |-> rationale]

\* the message texts are left out
ValidationError(field, severity) == [field |-> field, severity |-> severity]

ValidationResult(valid, errors, warnings) ==
    [called |-> TRUE, raised |-> "", valid |-> valid, errors |-> errors,
     warnings |-> warnings]

\* the errors and warnings lists a _validate_ method appends, or the
\* exception it ends with
Found(errors, warnings) == [raised |-> "", errors |-> errors, warnings |-> warnings]
Failed(exception) == [raised |-> exception, errors |-> <<>>, warnings |-> <<>>]

\* `if condition: list.append(ValidationError(...))`
append_if(condition, field, severity) ==
    IF condition THEN <<ValidationError(field, severity)>> ELSE <<>>

MIN_RATIONALE_LENGTH == 50
WARNING_DAYS == 30

_validate_required_fields(doc) ==
    Found(append_if(doc.id = "", "id", "error")
              \o append_if(doc.title = "", "title", "error")
              \o append_if(doc.targets = <<>>, "targets", "error"),
          <<>>)

_validate_status(doc) ==
    Found(append_if(doc.status = "draft", "status", "error"),
          append_if(doc.status = "deprecated", "status", "warning")
              \o append_if(doc.status = "superseded", "status", "warning"))

\* date.today() is the date read from the clock
_validate_grace_period(doc, clock) ==
    LET expires == expiry_date(doc.approval)
    IN  IF expires.raised # "" THEN Failed(expires.raised)
        ELSE IF expires.value < clock
        THEN Found(<<ValidationError("approval.grace_period", "error")>>, <<>>)
        ELSE IF expires.value - clock <= WARNING_DAYS
        THEN Found(<<>>, <<ValidationError("approval.grace_period", "warning")>>)
        ELSE Found(<<>>, <<>>)

_validate_thresholds(doc) ==
    LET th == doc.thresholds
    IN  Found(append_if(~th.nesting.given /\ ~th.concepts.given, "thresholds",
                        "error")
                  \o append_if(th.nesting.given /\ (th.nesting.scores < 4
                                                    \/ th.nesting.scores > 15),
                               "thresholds.nesting", "error")
                  \o append_if(th.concepts.given /\ (th.concepts.scores < 5
                                                     \/ th.concepts.scores > 30),
                               "thresholds.concepts", "error"),
              <<>>)

\* f"targets[{target.path}].signals"
signals_field(path) ==
    IF path = "a.py" THEN "targets[a.py].signals" ELSE "targets[b.py].signals"

_validate_signals(doc) ==
    LET unsignalled == SelectSeq(doc.targets, LAMBDA t : t.signals = <<>>)
    IN  Found(<<>>,
              [k \in DOMAIN unsignalled |->
                  ValidationError(signals_field(unsignalled[k].path),
                                  "warning")])

_validate_convergence(doc) ==
    LET conv == doc.convergence
    IN  IF ~conv.given THEN Found(<<>>, <<>>)
        ELSE Found(append_if(abs(conv.delta_phi) >= conv.epsilon,
                             "convergence.delta_phi", "error")
                       \o append_if(conv.iterations < MIN_CONVERGENCE_ITERATIONS,
                                    "convergence.iterations", "error")
                       \o append_if(~conv.evidence_complete,
                                    "convergence.evidence_complete", "error")
                       \o append_if(conv.snapshot_before = ""
                                        \/ conv.snapshot_after = "",
                                    "convergence.snapshots", "error"),
                   <<>>)

_validate_rationale(doc) ==
    IF doc.rationale = <<>>
    THEN Found(<<ValidationError("rationale", "error")>>, <<>>)
    ELSE Found(<<>>,
               append_if(Len(strip(doc.rationale)) < MIN_RATIONALE_LENGTH,
                         "rationale", "warning"))

\* the seven checks in their order; the first exception ends the call
RECURSIVE gather(_, _, _)
gather(checks, errors, warnings) ==
    IF checks = <<>> THEN ValidationResult(errors = <<>>, errors, warnings)
    ELSE IF Head(checks).raised # ""
    THEN [called |-> TRUE, raised |-> Head(checks).raised, valid |-> FALSE,
          errors |-> <<>>, warnings |-> <<>>]
    ELSE gather(Tail(checks), errors \o Head(checks).errors,
                warnings \o Head(checks).warnings)

\* a variant that reports the first error only
validate_first_error_only(doc, clock) ==
    LET all == gather(<<_validate_required_fields(doc), _validate_status(doc),
                        _validate_grace_period(doc, clock),
                        _validate_thresholds(doc), _validate_signals(doc),
                        _validate_convergence(doc), _validate_rationale(doc)>>,
                      <<>>, <<>>)
    IN  [all EXCEPT !.errors = IF all.errors = <<>> THEN <<>>
                                ELSE <<Head(all.errors)>>]

\* ADRValidator.validate, and validate_adr
validate(doc, clock) ==
    gather(<<_validate_required_fields(doc), _validate_status(doc),
             _validate_grace_period(doc, clock), _validate_thresholds(doc),
             _validate_signals(doc), _validate_convergence(doc),
             _validate_rationale(doc)>>,
           <<>>, <<>>)

NotValidated ==
    [called |-> FALSE, raised |-> "", valid |-> FALSE, errors |-> <<>>,
     warnings |-> <<>>]

\* the dates around an expiry on 2026-11-06 (ordinal 739926), which is 180
\* days after an approval on 2026-05-10 (ordinal 739746)
Dates == {739895, 739896, 739926, 739927}

\* approvals that expire on 2026-11-06 and on 2026-10-07, and two whose
\* expiry date lies beyond date.max
Approvals ==
    {ApprovalInfo(739746, 180, "lead"), ApprovalInfo(739746, 150, "lead"),
     ApprovalInfo(DATE_MAX - 152, 180, "lead"),
     ApprovalInfo(739746, 365 * 9000, "lead")}

Proofs ==
    {NoProof, ConvergenceProof("s1", "s2", 1, 10, 3, TRUE),
     ConvergenceProof("s1", "s2", 0 - 10, 10, 3, TRUE),
     ConvergenceProof("", "s2", 20, 10, 2, FALSE)}

TargetLists ==
    {<<>>, <<TargetFile("a.py", <<"algorithm">>)>>, <<TargetFile("a.py", <<>>)>>,
     <<TargetFile("a.py", <<>>), TargetFile("b.py", <<>>)>>}

ThresholdsDomain ==
    {ADRThresholds(n, c) : n \in {NoNumber, Some(3), Some(15)},
                           c \in {NoNumber, Some(5), Some(31)}}

Rationales ==
    {<<>>, <<" ", " ">>, [k \in 1..(MIN_RATIONALE_LENGTH - 1) |-> "x"],
     [k \in 1..MIN_RATIONALE_LENGTH |-> "x"]}

Documents ==
    {ADRDocument(id, title, status, approval, proof, targets, thresholds, rationale) :
        id \in {"", "ADR-001"}, title \in {"", "Exception"},
        status \in {"draft", "approved", "deprecated", "superseded"},
        approval \in Approvals, proof \in Proofs, targets \in TargetLists,
        thresholds \in ThresholdsDomain, rationale \in Rationales}

\* the documents that differ in their approval only
ApprovedDocuments ==
    {doc \in Documents :
        /\ doc.id = "ADR-001" /\ doc.title = "Exception" /\ doc.status = "approved"
        /\ doc.convergence = NoProof /\ doc.targets = <<>>
        /\ doc.thresholds = ADRThresholds(NoNumber, NoNumber) /\ doc.rationale = <<>>}

\* ExpiryInfo without its message text
ExpiryInfo(status, expires, remaining) ==
    [status |-> status, expiry_date |-> expires, remaining_days |-> remaining]

\* the outcome of one call of an expiry function: the `today` it used and
\* what it returned or raised
Answered(on, value) == [called |-> TRUE, on |-> on, raised |-> "", value |-> value]
Refused(on, exception) ==
    [called |-> TRUE, on |-> on, raised |-> exception, value |-> "None"]
NoOutcome == [called |-> FALSE, on |-> 0, raised |-> "", value |-> "None"]

\* a variant with the warning period counted from the day after
status_of_late_warning(remaining) ==
    IF remaining < 0 THEN "expired"
    ELSE IF remaining < WARNING_DAYS THEN "warning"
    ELSE "active"

status_of(remaining) ==
    IF remaining < 0 THEN "expired"
    ELSE IF remaining <= WARNING_DAYS THEN "warning"
    ELSE "active"

\* `on` is the today argument, or the clock's date for None
check_expiry(doc, on) ==
    LET expires == expiry_date(doc.approval)
        remaining == expires.value - on
    IN  IF expires.raised # "" THEN Refused(on, expires.raised)
        ELSE Answered(on, ExpiryInfo(status_of(remaining), expires.value, remaining))

is_status(doc, on, status) ==
    LET info == check_expiry(doc, on)
    IN  IF info.raised # "" THEN info
        ELSE Answered(on, info.value.status = status)

is_expired(doc, on) == is_status(doc, on, "expired")
is_warning(doc, on) == is_status(doc, on, "warning")
is_active(doc, on) == is_status(doc, on, "active")

\* the message is modelled by the status it words; "None" is None
get_expiry_warning(doc, on) ==
    LET info == check_expiry(doc, on)
    IN  IF info.raised # "" THEN info
        ELSE IF info.value.status = "active" THEN Answered(on, "None")
        ELSE Answered(on, info.value.status)

NoExpiry ==
    [check_expiry |-> NoOutcome, is_expired |-> NoOutcome, is_warning |-> NoOutcome,
     is_active |-> NoOutcome, get_expiry_warning |-> NoOutcome]

NoDocument ==
    ADRDocument("", "", "draft", ApprovalInfo(DATE_MIN, 0, ""), NoProof, <<>>,
                ADRThresholds(NoNumber, NoNumber), <<>>)

DocumentIdle ==
    /\ adr = NoDocument
    /\ today = DATE_MIN
    /\ validation = NotValidated
    /\ expiry = NoExpiry

GateIdle == GraceIdle /\ DocumentIdle

otherVars == <<coreVars, bestVars, hodgeVars, storeVars, batchVars, identityVars,
               measureVars>>

\* validate_adr(adr) on the clock's date
ValidateInit ==
    /\ adr \in Documents
    /\ today \in Dates
    /\ validation = NotValidated
    /\ expiry = NoExpiry

ValidateAdr ==
    /\ validation' = validate(adr, today)
    /\ UNCHANGED <<grace_text, grace_period, adr, today, expiry>>
    /\ UNCHANGED otherVars

\* the expiry functions, each with a today argument or None
ExpiryInit ==
    /\ adr \in ApprovedDocuments
    /\ today \in Dates
    /\ validation = NotValidated
    /\ expiry = NoExpiry

TodayArguments == {NoNumber} \cup {Some(day) : day \in Dates}

effective(argument) == IF argument.given THEN argument.scores ELSE today

CheckExpiry ==
    \E argument \in TodayArguments :
        /\ expiry' = [expiry EXCEPT !.check_expiry = check_expiry(adr, effective(argument))]
        /\ UNCHANGED <<grace_text, grace_period, adr, today, validation>>
        /\ UNCHANGED otherVars

IsExpired ==
    \E argument \in TodayArguments :
        /\ expiry' = [expiry EXCEPT !.is_expired = is_expired(adr, effective(argument))]
        /\ UNCHANGED <<grace_text, grace_period, adr, today, validation>>
        /\ UNCHANGED otherVars

IsWarning ==
    \E argument \in TodayArguments :
        /\ expiry' = [expiry EXCEPT !.is_warning = is_warning(adr, effective(argument))]
        /\ UNCHANGED <<grace_text, grace_period, adr, today, validation>>
        /\ UNCHANGED otherVars

IsActive ==
    \E argument \in TodayArguments :
        /\ expiry' = [expiry EXCEPT !.is_active = is_active(adr, effective(argument))]
        /\ UNCHANGED <<grace_text, grace_period, adr, today, validation>>
        /\ UNCHANGED otherVars

GetExpiryWarning ==
    \E argument \in TodayArguments :
        /\ expiry' = [expiry EXCEPT !.get_expiry_warning =
                          get_expiry_warning(adr, effective(argument))]
        /\ UNCHANGED <<grace_text, grace_period, adr, today, validation>>
        /\ UNCHANGED otherVars

----------------------------------------------------------------------------
(* Specifications: one per component, the other components at rest         *)

RestIdle ==
    /\ BestIdle /\ HodgeIdle /\ StoreInit /\ BatchIdle /\ IdentityInit
    /\ MeasureIdle /\ GateIdle

EnergyIdle ==
    /\ epsilon = DEFAULT_EPSILON
    /\ samples = <<>>
    /\ convergence = NoConvergence
    /\ eligibility = NoEligibility

Init == EnergyInit /\ OscInit /\ FluxInit /\ PhiIdle /\ DevIdle /\ RestIdle

Next == FeedSample \/ CheckEligibility

Spec == Init /\ [][Next]_vars

OscStart == EnergyIdle /\ OscInit /\ FluxInit /\ PhiIdle /\ DevIdle /\ RestIdle

OscNext == Add \/ AnalyzeAny

SpecOsc == OscStart /\ [][OscNext]_vars

FluxStart == EnergyIdle /\ OscInit /\ FluxInit /\ PhiIdle /\ DevIdle /\ RestIdle

FluxNext == NextSnapshot \/ DetectSimple

SpecFlux == FluxStart /\ [][FluxNext]_vars

PhiStart == EnergyIdle /\ OscInit /\ FluxInit /\ PhiInit /\ DevIdle /\ RestIdle

PhiNext == CalculatePhi

SpecPhi == PhiStart /\ [][PhiNext]_vars

DevStart == EnergyIdle /\ OscInit /\ FluxInit /\ PhiIdle /\ DevInit /\ RestIdle

DevNext == CalculateDeviation

SpecDev == DevStart /\ [][DevNext]_vars

CoreIdle == EnergyIdle /\ OscInit /\ FluxInit /\ PhiIdle /\ DevIdle

BestStart == CoreIdle /\ BestInit /\ HodgeIdle /\ StoreInit /\ BatchIdle /\ IdentityInit /\ MeasureIdle /\ GateIdle

BestNext == FindBestModuleType

SpecBest == BestStart /\ [][BestNext]_vars

HodgeStart == EnergyIdle /\ OscInit /\ FluxInit /\ PhiIdle /\ BestIdle /\ HodgeInit /\ StoreInit /\ BatchIdle /\ IdentityInit /\ MeasureIdle /\ GateIdle

HodgeNext == ClassifyHodge

SpecHodge == HodgeStart /\ [][HodgeNext]_vars

StoreStart == CoreIdle /\ BestIdle /\ HodgeIdle /\ StoreInit /\ BatchIdle /\ IdentityInit /\ MeasureIdle /\ GateIdle

StoreNext == Write \/ Query

SpecStore == StoreStart /\ [][StoreNext]_vars

BatchStart == CoreIdle /\ BestIdle /\ HodgeIdle /\ BatchInit /\ IdentityInit /\ MeasureIdle /\ GateIdle

BatchNext ==
    \/ WriterInsertSnapshot
    \/ WriterInsertMetrics
    \/ WriterInsertEdge
    \/ ReaderGetSnapshot
    \/ ReaderGetHotspots
    \/ ReaderGetPhi
    \/ ReaderGetBoundaryFlux

SpecBatch == BatchStart /\ [][BatchNext]_vars

IdentityStart ==
    /\ CoreIdle /\ BestIdle /\ HodgeIdle /\ StoreInit /\ BatchIdle
    /\ IdentityInit /\ MeasureIdle /\ GateIdle

IdentityNext ==
    \/ \E path \in Paths, symbol \in Symbols, language \in Languages,
          content_hash \in ContentHashes :
          CreateEntity(path, symbol, "func", language, content_hash)
    \/ \E commit \in Commits, repo \in Repos :
          CreateSnapshot(commit, repo, None, "dev", None)

SpecIdentity == IdentityStart /\ [][IdentityNext]_vars

MeasureStart ==
    /\ CoreIdle /\ BestIdle /\ HodgeIdle /\ StoreInit /\ BatchIdle
    /\ IdentityInit /\ MeasureInit /\ GateIdle

MeasureNext == Measure

SpecMeasure == MeasureStart /\ [][MeasureNext]_vars

OthersIdle ==
    /\ CoreIdle /\ BestIdle /\ HodgeIdle /\ StoreInit /\ BatchIdle /\ IdentityInit
    /\ MeasureIdle

GraceStart == OthersIdle /\ GraceInit /\ DocumentIdle
GraceNext == ParseTimedelta
SpecGrace == GraceStart /\ [][GraceNext]_vars

ValidateStart == OthersIdle /\ GraceIdle /\ ValidateInit
ValidateNext == ValidateAdr
SpecValidate == ValidateStart /\ [][ValidateNext]_vars

ExpiryStart == OthersIdle /\ GraceIdle /\ ExpiryInit
ExpiryNext == CheckExpiry \/ IsExpired \/ IsWarning \/ IsActive \/ GetExpiryWarning
SpecExpiry == ExpiryStart /\ [][ExpiryNext]_vars

----------------------------------------------------------------------------
(* Claims about the convergence tracker and the eligibility gate           *)

SubEps(d) == d < epsilon /\ -d < epsilon

\* C1: feeding samples one at a time with the counter threaded from the
\* previous result, a sample with |dPhi| < eps returns iterations =
\* previous_iterations + 1 and a sample with |dPhi| >= eps returns 0,
\* whatever the counter was before.
C1_CounterStep ==
    [][samples' # samples =>
          LET d == Last(samples')
          IN  /\ SubEps(d) => convergence'.iterations = convergence.iterations + 1
              /\ ~SubEps(d) => convergence'.iterations = 0]_vars

\* a positive counter was reset by an out-of-tolerance sample
C1_Witness ==
    /\ Len(samples) >= 3
    /\ SubEps(samples[Len(samples) - 2])
    /\ SubEps(samples[Len(samples) - 1])
    /\ ~SubEps(Last(samples))
    /\ convergence.iterations = 0

\* C2: converged is true after a sample iff that sample and the two samples
\* immediately before it are all below eps; [0.1, 0.005, 0.003, 0.002] with
\* eps = 0.01 is not converged after samples 1 to 3 and converged after 4.
C2_ExactlyThreeConsecutive ==
    /\ Len(samples) > 0 =>
          (convergence.converged <=>
              /\ Len(samples) >= 3
              /\ \A i \in (Len(samples) - 2)..Len(samples) : SubEps(samples[i]))
    /\ (epsilon = 10 /\ samples \in {<<100>>, <<100, 5>>, <<100, 5, 3>>})
          => ~convergence.converged
    /\ (epsilon = 10 /\ samples = <<100, 5, 3, 2>>) => convergence.converged

C2_Witness ==
    /\ epsilon = 10
    /\ samples = <<100, 5, 3, 2>>
    /\ convergence.converged

Checked == eligibility # NoEligibility

\* C3: the gate approves iff convergence.converged, flux_stable and
\* evidence_complete are true and gate_passed is false.
C3_ApprovesIffAllFour ==
    Checked =>
        (eligibility.eligible <=>
            /\ eligibility.convergence.converged
            /\ eligibility.flux_stable
            /\ eligibility.evidence_complete
            /\ ~eligibility.gate_passed)

C3_Witness ==
    /\ Checked
    /\ eligibility.eligible
    /\ eligibility.convergence.converged
    /\ ~eligibility.gate_passed

\* the conditions of the gate that fail for the inputs of an eligibility check
FailedConditions(e) ==
    {c \in {"convergence", "flux", "evidence", "gate"} :
        \/ c = "convergence" /\ ~e.convergence.converged
        \/ c = "flux" /\ ~e.flux_stable
        \/ c = "evidence" /\ ~e.evidence_complete
        \/ c = "gate" /\ e.gate_passed}

\* the conditions a reason text names
NamedConditions(reason) ==
    {c \in {"convergence", "flux", "evidence", "gate"} :
        \/ c = "convergence" /\ Len(reason) >= 2 /\ reason[1] = "Not"
                             /\ reason[2] = "converged:"
        \/ c = "flux" /\ HasWord(reason, "flux")
        \/ c = "evidence" /\ HasWord(reason, "Evidence")
        \/ c = "gate" /\ HasWord(reason, "Gate")}

\* C4: a denial caused by exactly one failing condition carries a reason that
\* names that condition and no other, so the four single-cause reasons are
\* pairwise different and differ from the approval message, which names none.
C4_ReasonNamesFailingCondition ==
    Checked =>
        /\ Cardinality(FailedConditions(eligibility)) = 1
              => NamedConditions(eligibility.reason) = FailedConditions(eligibility)
        /\ eligibility.eligible => NamedConditions(eligibility.reason) = {}
        /\ ~eligibility.eligible => NamedConditions(eligibility.reason) # {}

C4_Witness ==
    /\ Checked
    /\ FailedConditions(eligibility) = {"evidence"}
    /\ ~eligibility.eligible
    /\ HasWord(eligibility.reason, "Evidence")

----------------------------------------------------------------------------
(* Claims about the oscillation detector                                   *)

\* C5: whenever the oscillation test fires on the supplied history,
\* analyze_convergence returns OSCILLATING, regardless of score, threshold
\* and epsilon.
C5_OscillationOverrides ==
    [][(/\ is_oscillating(history)
        /\ Analyze(analysis'.score, analysis'.threshold, analysis'.epsilon, TRUE))
          => analysis'.status = "OSCILLATING"]_vars

\* OSCILLATING was returned for a score in the safe zone
C5_Witness ==
    /\ analysis.status = "OSCILLATING"
    /\ analysis.epsilon > 0
    /\ analysis.score < analysis.threshold - analysis.epsilon

Sign(n) == IF n > 0 THEN 1 ELSE IF n < 0 THEN -1 ELSE 0

\* the consecutive pairs of changes, by the index of the first change
ChangePairs(scores) == 1..(Len(scores) - 2)

OppositePairs(scores) ==
    {i \in ChangePairs(scores) :
        Sign(scores[i + 1] - scores[i]) * Sign(scores[i + 2] - scores[i + 1]) = -1}

Monotonic(scores) ==
    \/ \A i \in 1..(Len(scores) - 1) : scores[i] <= scores[i + 1]
    \/ \A i \in 1..(Len(scores) - 1) : scores[i] >= scores[i + 1]

\* C6 as claimed: the test fires exactly when at least 60% of the consecutive
\* pairs of changes in the window have opposite signs.
C6_SixtyPercentOfPairs ==
    is_oscillating(history) <=>
        /\ ChangePairs(history) # {}
        /\ 10 * Cardinality(OppositePairs(history))
              >= 6 * Cardinality(ChangePairs(history))

\* C6 amended: the test fires exactly when the window holds at least 4 scores
\* and the number of consecutive pairs of changes with opposite signs is at
\* least 60% of the number of changes (one more than the number of pairs); a
\* monotonic window never fires it.
C6_SixtyPercentOfChanges ==
    /\ is_oscillating(history) <=>
          /\ Len(history) >= 4
          /\ 10 * Cardinality(OppositePairs(history)) >= 6 * (Len(history) - 1)
    /\ Monotonic(history) => ~is_oscillating(history)

\* five scores, two of the three pairs of changes opposite: the test is silent
C6_Witness ==
    /\ Len(history) = 5
    /\ Cardinality(OppositePairs(history)) = 2
    /\ ~is_oscillating(history)

----------------------------------------------------------------------------
(* Claims about boundary degradation                                       *)

Detected == degradation # NoDegradation

\* C7: is_flux_stable(before, after, threshold) is true iff
\* after.flux - before.flux <= 0 and after.avg_weight_per_edge <= threshold.
C7_StableIffNoIncreaseAndLoadWithin ==
    Detected =>
        (stable <=>
            /\ flux_after.flux - flux_before.flux <= 0
            /\ flux_after.avg_weight_per_edge <= load_threshold)

\* stable at the default threshold with the flux unchanged and the load at 2.0
C7_Witness ==
    /\ Detected
    /\ stable
    /\ load_threshold = BOUNDARY_LOAD_THRESHOLD
    /\ flux_after.flux = flux_before.flux
    /\ flux_after.avg_weight_per_edge = BOUNDARY_LOAD_THRESHOLD

\* C8: degraded is true whenever the flux increased; severity is SEVERE iff
\* the flux increased and the later snapshot's average load exceeds the
\* threshold; flux 5.0 -> 7.0 with average load <= 2.0 is degraded, not severe.
C8_SevereIffIncreaseAndLoad ==
    Detected =>
        /\ flux_after.flux > flux_before.flux => degradation.degraded
        /\ degradation.severity = "SEVERE" <=>
              /\ flux_after.flux > flux_before.flux
              /\ flux_after.avg_weight_per_edge > load_threshold
        /\ (/\ flux_before.flux = 50
            /\ flux_after.flux = 70
            /\ load_threshold = BOUNDARY_LOAD_THRESHOLD
            /\ flux_after.avg_weight_per_edge <= 20)
              => degradation.degraded /\ degradation.severity # "SEVERE"

C8_Witness ==
    /\ Detected
    /\ flux_before.flux = 50
    /\ flux_after.flux = 70
    /\ load_threshold = BOUNDARY_LOAD_THRESHOLD
    /\ flux_after.avg_weight_per_edge = 20
    /\ degradation.degraded
    /\ degradation.severity = "MILD"

----------------------------------------------------------------------------
(* Claims about the potential function                                     *)

RECURSIVE Total(_, _)
Total(f, S) == IF S = {} THEN 0
               ELSE LET i == CHOOSE j \in S : TRUE IN f[i] + Total(f, S \ {i})

DefaultLambdas == ~config.given \/ config = PotentialConfig

\* C9: with the default lambdas, phi = 1.0 * (sum of d over all metrics)
\* + 0.5 * (sum of weight_total over exactly the edges that are
\* boundary-crossing or have coupling > 0.5) + 0.3 * ops_penalty; an edge that
\* is not boundary-crossing and has coupling <= 0.5 contributes nothing.
C9_PhiFormula ==
    (potential # NoPotential /\ DefaultLambdas) =>
        potential.phi =
            10 * Total([i \in 1..Len(phi_metrics) |-> phi_metrics[i].d],
                       1..Len(phi_metrics))
            + 5 * Total([i \in 1..Len(phi_edges) |-> phi_edges[i].weight_total],
                        {i \in 1..Len(phi_edges) :
                            phi_edges[i].is_boundary \/ phi_edges[i].coupling > 5})
            + 3 * ops_penalty

\* an internal edge with coupling exactly 0.5 next to a boundary edge: only the
\* boundary edge is counted
C9_Witness ==
    /\ potential # NoPotential
    /\ DefaultLambdas
    /\ Len(phi_metrics) = 2
    /\ Len(phi_edges) = 2
    /\ ~phi_edges[1].is_boundary /\ phi_edges[1].coupling = 5
    /\ phi_edges[2].is_boundary
    /\ potential.edge_weight_sum = phi_edges[2].weight_total
    /\ ops_penalty > 0

----------------------------------------------------------------------------
(* Claims about the canonical deviation                                    *)

Dimensions == {"C", "N", "S", "A", "L"}

C11_NeverFails ==
    d_u # NoDeviation =>
        LET mu == IF architecture_role \in ModuleTypes
                  THEN CANONICAL_5D_PROFILES[architecture_role]
                  ELSE CANONICAL_5D_PROFILES["app"]
        IN  /\ d_u \in Nat
            /\ architecture_role \notin ModuleTypes =>
                  /\ d_u = calculate_deviation(x, "app")
                  /\ d_u = 0 <=> x = CANONICAL_5D_PROFILES["app"]
            /\ \A k \in Dimensions :
                  (mu[k] = 0 /\ \A j \in Dimensions \ {k} : x[j] = mu[j]) =>
                      2 * d_u = DevUnit * x[k]

\* the category "unknown" is not in the table: the app centroid has
\* deviation 0 under it
C11_Witness ==
    /\ d_u = 0
    /\ architecture_role = "unknown"
    /\ x = CANONICAL_5D_PROFILES["app"]

----------------------------------------------------------------------------
(* Claims about the best-category search                                   *)

\* the categories the search visits, by position in the enum
Categories == {i \in 1..Len(ModuleType) : ModuleType[i] # "unknown"}

CategoryDistance(i) ==
    mahalanobis_distance(vector, centroid(CANONICAL_PROFILES[ModuleType[i]]),
                         InteractionMatrix(ModuleType[i]))

\* C12: for every vector find_best_module_type returns the category whose
\* centroid has the minimum distance to the vector, and among several
\* categories at the minimum distance the one declared first.
C12_ReturnsNearestCategory ==
    best # NoBest =>
        /\ best.raised = ""
        /\ \E i \in Categories :
              /\ best.best_type = ModuleType[i]
              /\ \A j \in Categories : CategoryDistance(i) <= CategoryDistance(j)
              /\ \A j \in Categories :
                    CategoryDistance(j) = CategoryDistance(i) => i <= j

----------------------------------------------------------------------------
(* Claims about the Hodge classification                                   *)

BucketScore(i) ==
    CASE i = 1 -> x.C + x.N
      [] i = 2 -> x.A
      [] i = 3 -> x.S + x.L

\* C13: classify_hodge returns a bucket whose score (algorithmic = C + N,
\* balanced = A, architectural = S + L) is maximal, and of two or three
\* buckets that tie for the maximum the first in the declaration order
\* algorithmic, balanced, architectural.
C13_FirstMaximalBucket ==
    hodge # NoBucket =>
        \E i \in 1..3 :
            /\ hodge = HodgeBucket[i]
            /\ \A j \in 1..3 : BucketScore(j) <= BucketScore(i)
            /\ \A j \in 1..3 : j < i => BucketScore(j) < BucketScore(i)

\* balanced and architectural tie for the maximum above algorithmic
C13_Witness ==
    /\ hodge = "balanced"
    /\ x.A = x.S + x.L
    /\ x.C + x.N < x.A

----------------------------------------------------------------------------
(* Claims about the store                                                  *)

MetricsKeys == (SnapshotIds \cup AskedSnapshotIds) \X (EntityIds \cup AskedEntityIds)

\* C14: after insert_metrics(m), get_metrics(m.snapshot_id, m.entity_id)
\* returns a record with the vector and the deviation of m; the record a key
\* returns changes only by an insert_metrics for that key, so a key that was
\* never written returns None.
C14_RoundTrip ==
    /\ \A k \in MetricsKeys : get_metrics(db, k[1], k[2]) = None
    /\ [][/\ answer'.query = "insert_metrics" =>
                LET m == answer'.args[1]
                    r == get_metrics(db', m.snapshot_id, m.entity_id)
                IN  /\ r # None /\ r.x = m.x /\ r.d = m.d
                    /\ \A k \in MetricsKeys \ {<<m.snapshot_id, m.entity_id>>} :
                          get_metrics(db', k[1], k[2]) = get_metrics(db, k[1], k[2])
          /\ answer'.query # "insert_metrics" => db'.metrics = db.metrics]_vars

\* the record stored for (snap-1, ent-1) was read back, and a key that was
\* never written is absent
C14_Witness ==
    /\ answer.query = "get_metrics"
    /\ answer.args = <<"snap-1", "ent-1">>
    /\ answer.value # None
    /\ answer.value.x = ComplexityVector(5, 3, 2, 1, 4)
    /\ answer.value.d = 15
    /\ get_metrics(db, "snap-0", "ent-1") = None

SameMetricsKey(r1, r2) ==
    r1.snapshot_id = r2.snapshot_id /\ r1.entity_id = r2.entity_id

SameEdgeKey(r1, r2) ==
    /\ r1.snapshot_id = r2.snapshot_id
    /\ r1.src_entity_id = r2.src_entity_id
    /\ r1.dst_entity_id = r2.dst_entity_id
    /\ r1.edge_type = r2.edge_type

UniqueKeys ==
    /\ \A r1, r2 \in db.metrics : SameMetricsKey(r1, r2) => r1 = r2
    /\ \A r1, r2 \in db.edges : SameEdgeKey(r1, r2) => r1 = r2

RECURSIVE Written(_)
Written(n) ==
    IF n = 0 THEN StoredEntities
    ELSE IF n = 1 THEN insert_snapshot(Written(0), batch.snapshot)
    ELSE IF n <= 1 + Len(batch.metrics)
         THEN insert_metrics(Written(n - 1), batch.metrics[n - 1])
    ELSE insert_edge(Written(n - 1), batch.edges[n - 1 - Len(batch.metrics)])

WholeSnapshot == Written(1 + Len(batch.metrics) + Len(batch.edges))

\* C16: while the writer stores the snapshot, a reader's get_snapshot,
\* get_hotspots, get_phi and get_boundary_flux for that snapshot return
\* either what they return before the first call of the writer or what they
\* return after its last call.
C16_NoPartialSnapshotReads ==
    seen.query # NoAnswer.query =>
        LET sid == batch.snapshot.snapshot_id
        IN  CASE seen.query = "get_snapshot" ->
                    seen.value \in {get_snapshot(StoredEntities, sid),
                                    get_snapshot(WholeSnapshot, sid)}
              [] seen.query = "get_hotspots" ->
                    seen.value \in get_hotspots(StoredEntities, sid, 20)
                                       \cup get_hotspots(WholeSnapshot, sid, 20)
              [] seen.query = "get_phi" ->
                    seen.value \in {get_phi(StoredEntities, sid),
                                    get_phi(WholeSnapshot, sid)}
              [] seen.query = "get_boundary_flux" ->
                    seen.value \in {get_boundary_flux(StoredEntities, sid),
                                    get_boundary_flux(WholeSnapshot, sid)}

QueryNames ==
    {"get_snapshot", "get_entity", "get_metrics", "get_hotspots",
     "get_delta_deviations", "get_boundary_flux", "get_phi", "get_edges"}

\* C17: every query (get_snapshot, get_entity, get_metrics, get_hotspots,
\* get_delta_deviations, get_boundary_flux, get_phi, get_edges) leaves the
\* five tables as they were, for every argument including ids that do not
\* exist.
C17_QueriesReadOnly ==
    [][answer'.query \in QueryNames => db' = db]_vars

\* a record was asked for under ids that do not exist while the tables hold
\* rows
C17_Witness ==
    /\ answer.query = "get_metrics"
    /\ answer.args = <<"snap-0", "ent-0">>
    /\ answer.value = None
    /\ db.metrics # {}
    /\ db.edges # {}
    /\ db.snapshots # {}
    /\ db.entities # {}

\* the same path, with '\' and '/' treated alike
SamePath(p, q) ==
    /\ Len(p) = Len(q)
    /\ \A i \in DOMAIN p : p[i] = q[i] \/ {p[i], q[i]} = {"\\", "/"}

\* C18: two Entity objects created for the same path (with '\' and '/'
\* treated alike), symbol, language and content hash have the same
\* entity_id, and two Snapshot objects created for the same repository and
\* commit have the same snapshot_id.
C18_IdentitiesStable ==
    /\ \A e1, e2 \in created_entities :
          /\ SamePath(e1.entity.path, e2.entity.path)
          /\ e1.entity.symbol = e2.entity.symbol
          /\ e1.entity.language = e2.entity.language
          /\ e1.content_hash = e2.content_hash
          => e1.entity.entity_id = e2.entity.entity_id
    /\ \A s1, s2 \in created_snapshots :
          s1.repo = s2.repo /\ s1.commit = s2.commit
          => s1.snapshot_id = s2.snapshot_id

\* C19: the vector that measure returns has all five components >= 0, and
\* raw_sum of the vector, of the Metrics that create_metrics builds from it
\* and of the Metrics constructed from it with the default raw_sum equals
\* C + N + S + A + L.
C19_NonNegativeAndRawSum ==
    measurement.measured /\ measurement.raised = "" =>
        LET v == measurement.vector
            components == v.C + v.N + v.S + v.A + v.L
        IN  /\ v.C >= 0 /\ v.N >= 0 /\ v.S >= 0 /\ v.A >= 0 /\ v.L >= 0
            /\ raw_sum(v) = components
            /\ create_metrics("ent-1", "snap-1", v, 15, "algorithmic",
                              "lib/domain", 10).raw_sum = components
            /\ Metrics("ent-1", "snap-1", v, 0, 0, "algorithmic", "app",
                       10).raw_sum = components

\* a unit with an if statement and an import is measured: C = 1, N = 1 and
\* L = 0.5
C19_Witness ==
    /\ measurement.measured
    /\ source.error = ""
    /\ measurement.vector = [C |-> 2, N |-> 2, S |-> 0, A |-> 0, L |-> 1]

\* the number of nodes of the tree that have one of the types
NumberOf(tree, types) == Cardinality({i \in DOMAIN tree : tree[i].type \in types})

\* C20 as stated: Control is the number of conditionals, loops, exception
\* handlers, pattern-match cases and comprehension clauses of the unit, each
\* counted once (with or without async for among the loops).
C20_ControlCountsClauses ==
    measurement.measured /\ source.error = "" =>
        \E loops \in {{"For", "While"}, {"For", "While", "AsyncFor"}} :
            measurement.vector.C =
                2 * NumberOf(source.tree,
                             {"If", "ExceptHandler", "match_case",
                              "comprehension"} \cup loops)

\* C20: Control is the number of if, for, while, try, match and with
\* statements of the unit, each counted once: handlers, cases,
\* comprehension clauses, try/except* and async for add nothing.
C20_ControlCountsStatements ==
    measurement.measured /\ source.error = "" =>
        measurement.vector.C =
            2 * NumberOf(source.tree, {"If", "For", "While", "Try", "Match", "With"})

\* a try statement with two handlers is measured: Control is 1
C20_Witness ==
    /\ measurement.measured
    /\ source.error = ""
    /\ Len(source.tree) = 3
    /\ source.tree[1].type = "Try"
    /\ source.tree[2].type = "ExceptHandler"
    /\ source.tree[3].type = "ExceptHandler"
    /\ measurement.vector.C = 2

\* C21: when the source cannot be parsed, whatever ast.parse raises for
\* it, measure raises nothing and returns the zero vector and no rule hits.
C21_ParseFailureGivesZero ==
    measurement.measured /\ source.error # "" =>
        /\ measurement.raised = ""
        /\ measurement.vector = zero
        /\ measurement.rule_hits = <<>>

\* the text ends, once stripped and lowered, in none of the units d, m, y
NoUnitSuffix(text) ==
    LET stripped == lower(strip(text))
    IN  stripped = <<>> \/ Last(stripped) \notin {"d", "m", "y"}

\* the text is, once stripped, a run of digits after at most one sign
IsIntegerText(text) ==
    LET stripped == strip(text)
        digits == IF stripped # <<>> /\ Head(stripped) \in {"+", "-"}
                  THEN Tail(stripped) ELSE stripped
    IN  digits # <<>> /\ \A i \in DOMAIN digits : IsDigit(digits[i])

Fields(list) == {list[i].field : i \in DOMAIN list}

\* the fields a document violates with severity error, told from the
\* document alone (the approval aside)
ViolatedFields(doc) ==
    {field \in {"id", "title", "targets", "status", "thresholds",
                "thresholds.nesting", "thresholds.concepts",
                "convergence.delta_phi", "convergence.iterations",
                "convergence.evidence_complete", "convergence.snapshots",
                "rationale"} :
        CASE field = "id" -> doc.id = ""
          [] field = "title" -> doc.title = ""
          [] field = "targets" -> doc.targets = <<>>
          [] field = "status" -> doc.status = "draft"
          [] field = "thresholds" ->
                ~doc.thresholds.nesting.given /\ ~doc.thresholds.concepts.given
          [] field = "thresholds.nesting" ->
                /\ doc.thresholds.nesting.given
                /\ doc.thresholds.nesting.scores \notin 4..15
          [] field = "thresholds.concepts" ->
                /\ doc.thresholds.concepts.given
                /\ doc.thresholds.concepts.scores \notin 5..30
          [] field = "convergence.delta_phi" ->
                /\ doc.convergence.given
                /\ abs(doc.convergence.delta_phi) >= doc.convergence.epsilon
          [] field = "convergence.iterations" ->
                doc.convergence.given /\ doc.convergence.iterations < 3
          [] field = "convergence.evidence_complete" ->
                doc.convergence.given /\ ~doc.convergence.evidence_complete
          [] field = "convergence.snapshots" ->
                /\ doc.convergence.given
                /\ "" \in {doc.convergence.snapshot_before,
                           doc.convergence.snapshot_after}
          [] OTHER -> doc.rationale = <<>>}

\* C22: validate_adr raises for no document; its result lists every
\* violated field, each with severity error or warning, and is valid exactly
\* when the list of errors is empty.
C22_NeverRaisesListsAll ==
    validation.called =>
        /\ validation.raised = ""
        /\ ViolatedFields(adr) \subseteq Fields(validation.errors)
        /\ \A i \in DOMAIN validation.errors :
               validation.errors[i].severity = "error"
        /\ \A i \in DOMAIN validation.warnings :
               validation.warnings[i].severity = "warning"
        /\ validation.valid <=> validation.errors = <<>>

\* where validate_adr returns, it lists all the violated fields
C22_ListsAllWhereItReturns ==
    validation.called /\ validation.raised = "" =>
        /\ ViolatedFields(adr) \subseteq Fields(validation.errors)
        /\ validation.valid <=> validation.errors = <<>>

\* expiry_date - today in days for the call of an outcome, where the
\* expiry date of the record exists
RemainingOn(outcome) ==
    adr.approval.approved_date + adr.approval.grace_period - outcome.on

\* the three predicates were called for the same date
SameDateAsked ==
    /\ expiry.is_expired.called /\ expiry.is_warning.called /\ expiry.is_active.called
    /\ expiry.is_expired.on = expiry.is_warning.on
    /\ expiry.is_warning.on = expiry.is_active.on

\* the classification of one check_expiry outcome by the remaining days
ClassifiedByRemaining(outcome) ==
    /\ outcome.raised = ""
    /\ outcome.value.remaining_days = RemainingOn(outcome)
    /\ outcome.value.status = "expired" <=> RemainingOn(outcome) < 0
    /\ outcome.value.status = "warning" <=> RemainingOn(outcome) \in 0..30
    /\ outcome.value.status = "active" <=> RemainingOn(outcome) > 30

\* exactly one of the three answers is true
ExactlyOneTrue ==
    /\ expiry.is_expired.raised = "" /\ expiry.is_warning.raised = ""
    /\ expiry.is_active.raised = ""
    /\ Cardinality({name \in {"is_expired", "is_warning", "is_active"} :
                       expiry[name].value = TRUE}) = 1

\* the warning is None exactly when the record is active on that date
WarningNoneIffActive ==
    /\ expiry.get_expiry_warning.raised = ""
    /\ expiry.get_expiry_warning.value = "None"
           <=> RemainingOn(expiry.get_expiry_warning) > 30

C25_EpsilonNeighbourhood ==
    analysis.status \notin {"NONE", "OSCILLATING"} =>
        /\ analysis.status = "SAFE"
               <=> analysis.score < analysis.threshold - analysis.epsilon
        /\ analysis.status = "REVIEW"
               <=> /\ analysis.threshold - analysis.epsilon <= analysis.score
                   /\ analysis.score < analysis.threshold
        /\ analysis.status = "VIOLATION" <=> analysis.score >= analysis.threshold
        /\ is_converged(analysis) => analysis.status = "SAFE"

\* the classification as claimed holds for every epsilon above zero
C25_HoldsForPositiveEpsilon == analysis.epsilon > 0 => C25_EpsilonNeighbourhood

\* the last n elements of a list, in their order
LatestOf(scores, n) ==
    IF Len(scores) <= n THEN scores
    ELSE SubSeq(scores, Len(scores) - n + 1, Len(scores))

\* C26: the history, empty at first, never holds more than max_history
\* scores, and every add leaves exactly the most recently added scores in
\* the order of their adding: the added score comes last, before it stand
\* the latest of the scores held before, and the oldest is dropped first.
C26_RollingWindow ==
    /\ [](Len(history) <= MaxHistory)
    /\ [][history' # history =>
             /\ Len(history') = IF Len(history) < MaxHistory THEN Len(history) + 1
                                ELSE MaxHistory
             /\ Last(history') \in HistoryScores
             /\ SubSeq(history', 1, Len(history') - 1)
                    = LatestOf(history, Len(history') - 1)]_vars

\* the history is full, holds the scores in the order of their adding and
\* ends in the score 11 added last
C26_OldestDropped ==
    /\ Len(history) = MaxHistory
    /\ history[1] = 10
    /\ Last(history) = 11
    /\ \A i \in 2..(MaxHistory - 1) : history[i] = 9

\* C27: check_convergence_history on the list of samples returns the
\* iterations count and the converged flag that check_convergence, fed the
\* samples in order with the counter threaded from 0, has reached; for the
\* empty list it returns iterations 0 and converged false.
C27_HistoryEqualsFold ==
    LET whole == check_convergence_history(samples, epsilon)
    IN  /\ whole.iterations = convergence.iterations
        /\ whole.converged = convergence.converged
        /\ samples = <<>> => whole.iterations = 0 /\ ~whole.converged

\* the fold was reset by a sample out of tolerance and counted again after it
C27_RunAfterReset ==
    /\ Len(samples) = MaxSamples
    /\ abs(samples[1]) < epsilon
    /\ abs(samples[2]) >= epsilon
    /\ convergence.iterations = MaxSamples - 2

\* the metrics row refers to a snapshot row and to an entity row of the store
Referred(conn, row) ==
    /\ \E snapshot \in conn.snapshots : snapshot.snapshot_id = row.snapshot_id
    /\ \E entity \in conn.entities : entity.entity_id = row.entity_id

ReferentialIntegrity(conn) == \A row \in conn.metrics : Referred(conn, row)

\* C28: where every stored metrics row refers to an existing snapshot row
\* and entity row, a write that stores metrics only for a snapshot and an
\* entity inserted before leaves it so: no insert_snapshot or insert_entity
\* removes a row that stored metrics refer to.
C28_ReferentialIntegrity ==
    [][(/\ ReferentialIntegrity(db)
        /\ \A row \in db'.metrics \ db.metrics : Referred(db, row))
          => ReferentialIntegrity(db')]_vars

\* C29: for every threshold >= 0, detect_boundary_degradation and
\* detect_degradation_simple return degraded = true exactly when the
\* severity is not NONE, and severity NONE exactly when the flux did not
\* increase and the average load does not exceed the threshold; the
\* boundary summary never pairs degraded with the status "none".
C29_DegradedIffSeverityNotNone ==
    /\ Detected =>
          /\ degradation.degraded <=> degradation.severity # "NONE"
          /\ degradation.severity = "NONE"
                <=> /\ flux_after.flux <= flux_before.flux
                    /\ flux_after.avg_weight_per_edge <= load_threshold
          /\ get_boundary_status_summary(degradation).degraded
                => get_boundary_status_summary(degradation).status # "none"
    /\ simple.called =>
          /\ simple.result.degraded <=> simple.result.severity # "NONE"
          /\ simple.result.severity = "NONE"
                <=> /\ flux_after.flux <= flux_before.flux
                    /\ \/ simple.edge_count = 0
                       \/ flux_after.flux <= load_threshold * simple.edge_count
          /\ get_boundary_status_summary(simple.result).degraded
                => get_boundary_status_summary(simple.result).status # "none"

\* with threshold 0 both detections found a boundary degraded by its load
\* alone, the flux having fallen
C29_LoadAloneAtThresholdZero ==
    /\ Detected
    /\ simple.called
    /\ load_threshold = 0
    /\ flux_after.flux < flux_before.flux
    /\ degradation.degraded
    /\ simple.result.degraded
    /\ simple.result.severity = "MODERATE"

\* C30: after insert_metrics(m), get_metrics(m.snapshot_id, m.entity_id)
\* returns the Hodge bucket, the module_type, the raw_sum and the confidence
\* of m, for every record m, a confidence of 0 and a bucket other than that
\* of the largest score included.
C30_RoundTripOfLabels ==
    [][answer'.query = "insert_metrics" =>
          LET m == answer'.args[1]
              r == get_metrics(db', m.snapshot_id, m.entity_id)
          IN  /\ r.hodge = m.hodge
              /\ r.module_type = m.module_type
              /\ r.raw_sum = m.raw_sum
              /\ r.confidence = m.confidence]_vars

\* module_type and raw_sum are returned as they were stored
C30_ModuleTypeAndRawSumKept ==
    [][answer'.query = "insert_metrics" =>
          LET m == answer'.args[1]
              r == get_metrics(db', m.snapshot_id, m.entity_id)
          IN  r.module_type = m.module_type /\ r.raw_sum = m.raw_sum]_vars

====
